---- MODULE Spec2Model ----
(***************************************************************************)
(* Verification model of the drug query assistant (drug_query_bot).        *)
(*                                                                         *)
(* Strings of the program are TLA+ strings; characters are strings of      *)
(* length one, read with SubSeq.  Python's None is the sentinel None, a    *)
(* dict is a function whose DOMAIN is the set of keys present, and True    *)
(* stored in a dict is the string "True".  The two non-ASCII glyphs that   *)
(* normalize_drug_name removes are written "^" (trademark) and "~"         *)
(* (registered); the service mark is written "$".                          *)
(***************************************************************************)
EXTENDS Integers, Sequences, FiniteSets, TLC

VARIABLES
    pc,               \* position of process_query
    query,            \* the query text of the request
    parsed_intent,    \* the parsed_intent dict of process_query
    all_drug_names,   \* the local all_drug_names of process_query
    llm_intent,       \* the value returned by extract_intent_with_llm
    results,          \* the value returned by execute_query
    answer,           \* the value returned by generate_answer_with_llm
    calls,            \* the collaborator calls of the request, in order
    caller,           \* which function is inside call_openrouter
    attempt,          \* loop variable of call_openrouter
    sleeps,           \* the delays call_openrouter has slept, in order
    response,         \* the value returned by call_openrouter
    store,            \* the rows of the drugs table, in table order
    max_rows,         \* the most rows the store returns for one read
    gate_in,          \* argument of should_use_llm_fallback
    gate_out,         \* its return value
    db_op,            \* the storage-layer function last called
    db_out,           \* its return value
    fn_op,            \* the function of utils/intent.py or utils/fuzzy.py last called
    fn_out,           \* its return value
    request_counts,   \* api.py: the admitted timestamps of every caller identifier
    clock,            \* the value time.time() returns
    api_req,          \* the HTTP request last handled by api.py
    api_resp          \* its response

vars == <<pc, query, parsed_intent, all_drug_names, llm_intent, results,
          answer, calls, caller, attempt, sleeps, response, store,
          max_rows, gate_in, gate_out, db_op, db_out, fn_op, fn_out,
          request_counts, clock, api_req, api_resp>>

\* None where a str is expected
None == "<None>"
\* None where a dict is expected
NoneRec == [none |-> TRUE]
True == "True"

\* Python truthiness of a str-or-None value
Truthy(v) == v # None /\ v # ""

-----------------------------------------------------------------------------
(* Characters and strings *)

UpperAlpha == "ABCDEFGHIJKLMNOPQRSTUVWXYZ"
LowerAlpha == "abcdefghijklmnopqrstuvwxyz"
Digits == "0123456789"

At(s, i) == SubSeq(s, i, i)
Chars(s) == {At(s, i) : i \in 1..Len(s)}

IsSpace(c) == c \in {" ", "\t", "\n"}
\* \w of the re module
IsWordCh(c) == c \in Chars(UpperAlpha) \cup Chars(LowerAlpha) \cup Chars(Digits) \cup {"_"}

LowerCh(c) ==
    IF c \in Chars(UpperAlpha)
    THEN At(LowerAlpha, CHOOSE i \in 1..Len(UpperAlpha) : At(UpperAlpha, i) = c)
    ELSE c

RECURSIVE Lower(_)
\* str.lower
Lower(s) == IF s = "" THEN "" ELSE LowerCh(At(s, 1)) \o Lower(SubSeq(s, 2, Len(s)))

RECURSIVE LStrip(_)
LStrip(s) == IF s # "" /\ IsSpace(At(s, 1)) THEN LStrip(SubSeq(s, 2, Len(s))) ELSE s

RECURSIVE RStrip(_)
RStrip(s) == IF s # "" /\ IsSpace(At(s, Len(s))) THEN RStrip(SubSeq(s, 1, Len(s) - 1)) ELSE s

\* str.strip
Strip(s) == RStrip(LStrip(s))

RECURSIVE Remove(_, _)
\* str.replace(c, '') for a one-character c
Remove(s, c) ==
    IF s = "" THEN ""
    ELSE (IF At(s, 1) = c THEN "" ELSE At(s, 1)) \o Remove(SubSeq(s, 2, Len(s)), c)

RECURSIVE CollapseSpace(_)
\* re.sub(r'\s+', ' ', s)
CollapseSpace(s) ==
    IF s = "" THEN ""
    ELSE IF IsSpace(At(s, 1))
         THEN " " \o CollapseSpace(LStrip(s))
         ELSE At(s, 1) \o CollapseSpace(SubSeq(s, 2, Len(s)))

\* length of the leading run of non-space characters
RECURSIVE WordLen(_)
WordLen(s) == IF s = "" \/ IsSpace(At(s, 1)) THEN 0 ELSE 1 + WordLen(SubSeq(s, 2, Len(s)))

RECURSIVE Split(_)
\* str.split() with no argument
Split(s) ==
    LET t == LStrip(s)
        n == WordLen(t)
    IN IF t = "" THEN <<>> ELSE <<SubSeq(t, 1, n)>> \o Split(SubSeq(t, n + 1, Len(t)))

\* str.rfind, counted from 0, -1 when absent
RFind(s, sub) ==
    LET hits == {i \in 1..(Len(s) - Len(sub) + 1) : SubSeq(s, i, i + Len(sub) - 1) = sub}
    IN IF hits = {} THEN -1 ELSE (CHOOSE i \in hits : \A j \in hits : i >= j) - 1

\* str.find, counted from 0, -1 when absent
Find(s, sub) ==
    LET hits == {i \in 1..(Len(s) - Len(sub) + 1) : SubSeq(s, i, i + Len(sub) - 1) = sub}
    IN IF hits = {} THEN -1 ELSE (CHOOSE i \in hits : \A j \in hits : i <= j) - 1

-----------------------------------------------------------------------------
(* Regular expressions of the re module, as sets of spans <<i, j>>: the    *)
(* pattern matches the characters i .. j-1 of s.                           *)

Gaps(s) == 1..(Len(s) + 1)

\* a literal
Lit(s, l) == {<<i, i + Len(l)>> : i \in {k \in 1..(Len(s) - Len(l) + 1) : SubSeq(s, k, k + Len(l) - 1) = l}}
\* an alternation of literals
Lits(s, ls) == UNION {Lit(s, l) : l \in ls}
\* . matches every character but the newline
DotOk(s, i, j) == \A k \in i..(j - 1) : At(s, k) # "\n"
\* concatenation A B
Cat(A, B) == {<<p[1][1], p[2][2]>> : p \in {q \in A \X B : q[1][2] = q[2][1]}}
\* A .+ B
Plus(s, A, B) == {<<p[1][1], p[2][2]>> : p \in {q \in A \X B : q[1][2] < q[2][1] /\ DotOk(s, q[1][2], q[2][1])}}
\* A .* B
Star(s, A, B) == {<<p[1][1], p[2][2]>> : p \in {q \in A \X B : q[1][2] <= q[2][1] /\ DotOk(s, q[1][2], q[2][1])}}
\* A .? B
Maybe(s, A, B) == {<<p[1][1], p[2][2]>> : p \in {q \in A \X B : q[2][1] - q[1][2] \in {0, 1} /\ DotOk(s, q[1][2], q[2][1])}}
\* A \s+ B
Spaced(s, A, B) ==
    {<<p[1][1], p[2][2]>> : p \in {q \in A \X B : q[1][2] < q[2][1] /\ \A k \in q[1][2]..(q[2][1] - 1) : IsSpace(At(s, k))}}
\* \b at gap i
WordAt(s, i) == i \in 1..Len(s) /\ IsWordCh(At(s, i))
Bnd(s, i) == WordAt(s, i - 1) # WordAt(s, i)
\* \b(A)
BLeft(s, A) == {sp \in A : Bnd(s, sp[1])}
\* \b(A)\b
BBoth(s, A) == {sp \in A : Bnd(s, sp[1]) /\ Bnd(s, sp[2])}
\* re.search
Search(A) == A # {}

-----------------------------------------------------------------------------
(* utils/intent.py *)

\* non.?preferred
NonPreferredRe(s) == Maybe(s, Lit(s, "non"), Lit(s, "preferred"))

AlternativeWords ==
    {"alternative", "alternatives", "instead", "other option", "other options", "replace", "replacement"}

alternatives_patterns(q) ==
    \/ Search(BBoth(q, Lits(q, AlternativeWords)))
    \/ Search(BBoth(q, Lit(q, "what else") \cup Plus(q, Lit(q, "other "), Lit(q, " like"))))
    \/ Search(BBoth(q, Plus(q, Lit(q, "preferred "), Plus(q, Lit(q, " in "), Lit(q, " category")))))

list_patterns(q) ==
    \/ Search(BBoth(q, Lits(q, {"list", "show all", "give all", "display all", "filter"})))
    \/ Search(BBoth(q, Plus(q, Lit(q, "all "), Lits(q, {" drug", " drugs", " medication", " medications"}))))
    \/ Search(BBoth(q, Plus(q, Lit(q, "what are "), Lits(q, {" drug", " drugs"}))))
    \/ Search(BBoth(q, Plus(q, Cat(NonPreferredRe(q), Lit(q, " ")),
                              Plus(q, Lits(q, {" with ", " that have ", " having "}), Lit(q, " preferred")))))

status_patterns(q) ==
    \/ Search(BBoth(q, Plus(q, Lit(q, "is "), Lit(q, " preferred"))))
    \/ Search(BBoth(q, Plus(q, Lit(q, "is "), Cat(Lit(q, " "), NonPreferredRe(q)))))
    \/ Search(BBoth(q, Plus(q, Lit(q, "does "), Lit(q, " require"))))
    \/ Search(BLeft(q, Lits(q, {"pa for", "prior auth"})))
    \/ Search(BBoth(q, Lits(q, {"mnd for", "medical necessity"})))
    \/ Search(BBoth(q, Lit(q, "status of")))
    \/ Search(BBoth(q, Maybe(q, Lit(q, "what"), Lit(q, "s the status"))))

\* the classification with the list patterns tried before the alternatives
\* patterns
detect_query_type_list_first(query_) ==
    IF list_patterns(Lower(query_)) THEN <<"list_filter", 85>>
    ELSE IF alternatives_patterns(Lower(query_)) THEN <<"alternatives", 90>>
    ELSE IF status_patterns(Lower(query_)) THEN <<"drug_status", 85>>
    ELSE <<"drug_status", 30>>

detect_query_type(query_) ==
    LET query_lower == Lower(query_)
    IN IF alternatives_patterns(query_lower) THEN <<"alternatives", 90>>
       ELSE IF list_patterns(query_lower) THEN <<"list_filter", 85>>
       ELSE IF status_patterns(query_lower) THEN <<"drug_status", 85>>
       ELSE <<"drug_status", 30>>

CATEGORY_KEYWORDS ==
    << <<"oncology", <<"oncology", "cancer", "chemotherapy", "chemo">> >>,
       <<"immunology", <<"immunology", "immune", "autoimmune">> >>,
       <<"rheumatology", <<"rheumatology", "rheumatoid", "arthritis">> >>,
       <<"dermatology", <<"dermatology", "skin", "dermatological">> >>,
       <<"gastroenterology", <<"gastroenterology", "gi", "digestive", "crohn", "colitis">> >>,
       <<"neurology", <<"neurology", "neurological", "nerve">> >>,
       <<"hematology", <<"hematology", "blood">> >>,
       <<"cardiology", <<"cardiology", "heart", "cardiac">> >> >>

\* a dict with the given keys
EmptyDict == [k \in {} |-> None]
\* d[k] = v
Put(d, k, v) == [x \in DOMAIN d \cup {k} |-> IF x = k THEN v ELSE d[x]]
\* dict.update
Update(d, e) == [x \in DOMAIN d \cup DOMAIN e |-> IF x \in DOMAIN e THEN e[x] ELSE d[x]]
\* dict.get
Get(d, k) == IF k \in DOMAIN d THEN d[k] ELSE None

StatusFilter(q) ==
    LET nonpref == BBoth(q, NonPreferredRe(q))
        negative == BBoth(q, NonPreferredRe(q) \cup Lit(q, "not preferred"))
        pref == BBoth(q, Lit(q, "preferred"))
        alts == BBoth(q, Lits(q, AlternativeWords))
    IN IF Search(Star(q, negative, Star(q, BBoth(q, Lits(q, {"with", "that have", "having"})), pref)))
       THEN Put(Put(EmptyDict, "drug_status", "non_preferred"), "has_preferred_alternative", True)
       ELSE IF Search(Star(q, BBoth(q, Lits(q, {"both", "all"})), BLeft(q, Lit(q, "preferred") \cup NonPreferredRe(q))))
       THEN EmptyDict
       ELSE IF Search(BBoth(q, Spaced(q, Lits(q, {"only", "just", "exclusively"}), Lit(q, "preferred"))))
               /\ ~Search(nonpref)
       THEN Put(EmptyDict, "drug_status", "preferred")
       ELSE IF Search(pref) /\ ~Search(nonpref)
       THEN IF \/ ~Search(Star(q, alts, BBoth(q, Lit(q, "to"))))
               \/ Search(BLeft(q, Spaced(q, Lit(q, "preferred"), Lits(q, {"alternative", "drug", "medication", "option"}))))
            THEN Put(EmptyDict, "drug_status", "preferred")
            ELSE EmptyDict
       ELSE IF Search(negative)
       THEN Put(EmptyDict, "drug_status", "non_preferred")
       ELSE EmptyDict

PaMndFilter(q, filters) ==
    IF Search(BBoth(q, Lits(q, {"pa", "prior auth", "preauth", "prior authorization", "mnd", "medical necessity"})
                       \cup Maybe(q, Lit(q, "pre"), Lit(q, "auth"))))
    THEN IF Search(BBoth(q, Lits(q, {"require", "requires", "requiring", "need", "needed"})))
         THEN Put(filters, "pa_mnd_required", "yes")
         ELSE IF Search(BBoth(q, Lits(q, {"no pa", "without pa", "no mnd", "without mnd"})
                                 \cup Maybe(q, Lit(q, "doesn"), Lit(q, "t require"))))
         THEN Put(filters, "pa_mnd_required", "no")
         ELSE filters
    ELSE filters

KeywordHit(q, entry) == \E i \in 1..Len(entry[2]) : Search(BBoth(q, Lit(q, entry[2][i])))

CategoryFilter(q, filters) ==
    LET hits == {i \in 1..Len(CATEGORY_KEYWORDS) : KeywordHit(q, CATEGORY_KEYWORDS[i])}
    IN IF hits = {} THEN filters
       ELSE Put(filters, "category", CATEGORY_KEYWORDS[CHOOSE i \in hits : \A j \in hits : i <= j][1])

extract_filters(query_) ==
    LET query_lower == Lower(query_)
    IN CategoryFilter(query_lower, PaMndFilter(query_lower, StatusFilter(query_lower)))

validate_filters(filters) ==
    LET keep == {k \in DOMAIN filters :
                    \/ k = "drug_status" /\ filters[k] \in {"preferred", "non_preferred", "not_listed"}
                    \/ k = "pa_mnd_required" /\ filters[k] \in {"yes", "no", "unknown"}
                    \/ k \in {"category", "hcpcs", "manufacturer", "has_preferred_alternative"}}
    IN [k \in keep |-> filters[k]]

\* the gate with a confidence of exactly 70 counted as low
should_use_llm_fallback_inclusive(parse_result) ==
    IF parse_result.confidence <= 70 THEN TRUE
    ELSE IF /\ parse_result.query_type \in {"drug_status", "alternatives"}
            /\ (~Truthy(parse_result.drug_name) \/ parse_result.drug_confidence < 70)
    THEN TRUE
    ELSE FALSE

should_use_llm_fallback(parse_result) ==
    IF parse_result.confidence < 70 THEN TRUE
    ELSE IF /\ parse_result.query_type \in {"drug_status", "alternatives"}
            /\ (~Truthy(parse_result.drug_name) \/ parse_result.drug_confidence < 70)
    THEN TRUE
    ELSE FALSE

-----------------------------------------------------------------------------
(* utils/fuzzy.py *)

normalize_drug_name(name) ==
    IF ~Truthy(name) THEN ""
    ELSE Strip(CollapseSpace(Remove(Remove(Lower(name), "^"), "~")))

\* the printable ASCII characters a name may hold, in code-point order
Ascii ==
    " !#$%&'+,-./" \o Digits \o ":;<=>?@" \o UpperAlpha \o "[]^_" \o LowerAlpha \o "{|}~"
CharOrd(c) == CHOOSE i \in 1..Len(Ascii) : At(Ascii, i) = c

RECURSIVE StrLess(_, _)
\* a < b on str
StrLess(a, b) ==
    IF b = "" THEN FALSE
    ELSE IF a = "" THEN TRUE
    ELSE IF At(a, 1) = At(b, 1) THEN StrLess(SubSeq(a, 2, Len(a)), SubSeq(b, 2, Len(b)))
    ELSE CharOrd(At(a, 1)) < CharOrd(At(b, 1))

RECURSIVE Insert(_, _)
Insert(sorted, w) ==
    IF sorted = <<>> THEN <<w>>
    ELSE IF StrLess(w, Head(sorted)) THEN <<w>> \o sorted
    ELSE <<Head(sorted)>> \o Insert(Tail(sorted), w)

RECURSIVE Sorted(_)
\* sorted(list of str)
Sorted(ws) == IF ws = <<>> THEN <<>> ELSE Insert(Sorted(Tail(ws)), Head(ws))

RECURSIVE Join(_)
\* " ".join
Join(ws) ==
    IF ws = <<>> THEN ""
    ELSE IF Len(ws) = 1 THEN ws[1]
    ELSE ws[1] \o " " \o Join(Tail(ws))

MaxOf(a, b) == IF a >= b THEN a ELSE b

RECURSIVE LcsRow(_, _, _, _, _)
\* one row of the longest-common-subsequence table: cur[j + 1] is the
\* value for the first i characters of a and the first j of b
LcsRow(a, b, i, prev, cur) ==
    LET j == Len(cur)
    IN IF j > Len(b) THEN cur
       ELSE LcsRow(a, b, i, prev,
                   Append(cur, IF At(a, i) = At(b, j)
                               THEN prev[j] + 1
                               ELSE MaxOf(prev[j + 1], cur[j])))

RECURSIVE LcsRows(_, _, _, _)
\* every row has Len(b) + 1 entries; the last entry of the last row is the
\* length of the longest common subsequence
LcsRows(a, b, i, prev) ==
    IF i > Len(a) \/ Len(prev) # Len(b) + 1 THEN prev[Len(prev)]
    ELSE LcsRows(a, b, i + 1, LcsRow(a, b, i, prev, <<0>>))

Lcs(a, b) == LcsRows(a, b, 1, [j \in 1..(Len(b) + 1) |-> 0])

\* rapidfuzz.fuzz.ratio as the fraction <<numerator, denominator>> of
\* 100 * (1 - indel / (len1 + len2))
ratio(a, b) ==
    IF Len(a) + Len(b) = 0 THEN <<0, 1>>
    ELSE <<200 * Lcs(a, b), Len(a) + Len(b)>>

\* rapidfuzz.fuzz.token_sort_ratio: the ratio of the sorted tokens
token_sort_ratio(s1, s2) == ratio(Join(Sorted(Split(s1))), Join(Sorted(Split(s2))))

ScoreLess(x, y) == x[1] * y[2] < y[1] * x[2]
ScoreAtLeast(x, t) == x[1] >= t * x[2]
\* int(score)
ScoreInt(x) == x[1] \div x[2]

RECURSIVE DictKeys(_, _)
\* the keys of {normalize_drug_name(name): name for name in drug_names},
\* in insertion order
DictKeys(drug_names, seen) ==
    IF drug_names = <<>> THEN seen
    ELSE LET k == normalize_drug_name(Head(drug_names))
         IN DictKeys(Tail(drug_names),
                     IF \E i \in 1..Len(seen) : seen[i] = k THEN seen ELSE Append(seen, k))

\* the value the dict comprehension leaves under key k: the last name
\* that normalizes to k
DictValue(drug_names, k) ==
    drug_names[CHOOSE i \in 1..Len(drug_names) :
                  /\ normalize_drug_name(drug_names[i]) = k
                  /\ \A j \in (i + 1)..Len(drug_names) : normalize_drug_name(drug_names[j]) # k]

\* the scores process.extractOne computes, one per choice
Scores(q, choices) == [i \in 1..Len(choices) |-> token_sort_ratio(q, choices[i])]

\* the first choice of maximal score, with its score
FirstMax(choices, scores) ==
    LET i == CHOOSE k \in 1..Len(choices) :
                /\ \A j \in 1..Len(choices) : ~ScoreLess(scores[k], scores[j])
                /\ \A j \in 1..(k - 1) : ScoreLess(scores[j], scores[k])
    IN <<choices[i], scores[i]>>

\* process.extractOne(q, choices, scorer=fuzz.token_sort_ratio), for a
\* list of choices that is not empty
ExtractOne(q, choices) == FirstMax(choices, Scores(q, choices))

\* the best choice returned whatever its score
MatchResultAnyScore(result, drug_names, threshold) ==
    <<DictValue(drug_names, result[1]), ScoreInt(result[2])>>

\* the part of fuzzy_match_drug_name after the extractOne call
MatchResult(result, drug_names, threshold) ==
    IF ScoreAtLeast(result[2], threshold)
    THEN <<DictValue(drug_names, result[1]), ScoreInt(result[2])>>
    ELSE <<None, 0>>

\* the part of fuzzy_match_drug_name after the normalization
MatchNormalized(normalized_query, keys, drug_names, threshold) ==
    IF \E i \in 1..Len(keys) : keys[i] = normalized_query
    THEN <<DictValue(drug_names, normalized_query), 100>>
    ELSE MatchResult(ExtractOne(normalized_query, keys), drug_names, threshold)

fuzzy_match_drug_name(query_, drug_names, threshold) ==
    IF ~Truthy(query_) \/ drug_names = <<>> THEN <<None, 0>>
    ELSE MatchNormalized(normalize_drug_name(query_), DictKeys(drug_names, <<>>), drug_names, threshold)

\* the 1-, 2- and 3-word windows in the order the loop appends them
RECURSIVE Windows(_, _)
Windows(words, i) ==
    IF i > Len(words) THEN <<>>
    ELSE <<words[i]>>
         \o (IF i < Len(words) THEN <<words[i] \o " " \o words[i + 1]>> ELSE <<>>)
         \o (IF i < Len(words) - 1 THEN <<words[i] \o " " \o words[i + 1] \o " " \o words[i + 2]>> ELSE <<>>)
         \o Windows(words, i + 1)

\* the match of every candidate, at threshold 60
CandidateMatches(candidates, drug_names) ==
    [i \in 1..Len(candidates) |-> fuzzy_match_drug_name(candidates[i], drug_names, 60)]

\* the loop over candidates keeping the last match of the greatest
\* confidence
BestCandidateLatest(matches) ==
    IF \A i \in 1..Len(matches) : matches[i][2] <= 0 THEN <<None, 0>>
    ELSE matches[CHOOSE i \in 1..Len(matches) :
                    /\ \A j \in 1..Len(matches) : matches[j][2] <= matches[i][2]
                    /\ \A j \in (i + 1)..Len(matches) : matches[j][2] < matches[i][2]]

\* the loop over candidates: <<best_match, best_confidence>> is the first
\* match of the greatest confidence above 0
BestCandidate(matches) ==
    IF \A i \in 1..Len(matches) : matches[i][2] <= 0 THEN <<None, 0>>
    ELSE matches[CHOOSE i \in 1..Len(matches) :
                    /\ \A j \in 1..Len(matches) : matches[j][2] <= matches[i][2]
                    /\ \A j \in 1..(i - 1) : matches[j][2] < matches[i][2]]

\* the last resort of extract_drug_name_from_query: the whole query
FullQueryMatch(m) ==
    IF Truthy(m[1]) THEN <<m[1], m[2], "full_query_match">> ELSE <<None, 0, "no_match">>

\* the part of extract_drug_name_from_query after the loop
ExtractedOrFull(best, query_, drug_names) ==
    IF Truthy(best[1]) THEN <<best[1], best[2], "extracted_from_query">>
    ELSE FullQueryMatch(fuzzy_match_drug_name(query_, drug_names, 50))

extract_drug_name_from_query(query_, drug_names) ==
    IF ~Truthy(query_) THEN <<None, 0, "empty_query">>
    ELSE ExtractedOrFull(BestCandidate(CandidateMatches(Windows(Split(query_), 1), drug_names)),
                         query_, drug_names)

-----------------------------------------------------------------------------
(* utils/db.py.  A row of the drugs table is a record with the columns     *)
(* drug_name, category, drug_status and pa_mnd_required; hcpcs,            *)
(* manufacturer and notes are copied from the first row of a drug exactly  *)
(* as pa_mnd_required is and are left out.  A read returns the matching    *)
(* rows in table order unless it is ordered.                               *)

\* column ILIKE pattern, for a pattern without wildcard characters
ILike(v, pattern) == v # None /\ Lower(v) = Lower(pattern)
\* column ILIKE 'pattern%'
ILikePrefix(v, pattern) ==
    v # None /\ Len(pattern) <= Len(v) /\ Lower(SubSeq(v, 1, Len(pattern))) = Lower(pattern)
\* column ILIKE '%pattern%'
ILikeContains(v, pattern) == v # None /\ Find(Lower(v), Lower(pattern)) >= 0
\* column = value; a comparison with null selects nothing
Eq(v, x) == v # None /\ x # None /\ v = x

RECURSIVE InsertRow(_, _)
InsertRow(sorted, r) ==
    IF sorted = <<>> THEN <<r>>
    ELSE IF StrLess(r.drug_name, Head(sorted).drug_name) THEN <<r>> \o sorted
    ELSE <<Head(sorted)>> \o InsertRow(Tail(sorted), r)

RECURSIVE OrderByName(_)
\* .order("drug_name"): rows of equal name keep their table order
OrderByName(rows) ==
    IF rows = <<>> THEN <<>>
    ELSE InsertRow(OrderByName(SubSeq(rows, 1, Len(rows) - 1)), rows[Len(rows)])

\* .limit(n)
Limit(rows, n) == SubSeq(rows, 1, IF Len(rows) < n THEN Len(rows) ELSE n)

\* "Supabase's 1000 row default limit" on the rows of one read
DefaultMaxRows == 1000

\* .execute() of a read without .range(): the store returns the first
\* max_rows rows of the result
ExecuteRead(rows) == Limit(rows, max_rows)

RECURSIVE Distinct(_, _)
\* the distinct values of a sequence, in order of first occurrence
Distinct(xs, seen) ==
    IF xs = <<>> THEN seen
    ELSE Distinct(Tail(xs), IF \E i \in 1..Len(seen) : seen[i] = Head(xs) THEN seen ELSE Append(seen, Head(xs)))

Column(rows, col) == [i \in 1..Len(rows) |-> rows[i][col]]

fetch_all_drug_names(table) == Sorted(Distinct(Column(table, "drug_name"), <<>>))

\* the value a dict built by d[row.category] = row.drug_status over rows
\* holds for every key: the status of the last row of the category
StatusesByCategory(rows) ==
    [c \in {rows[i].category : i \in 1..Len(rows)} |->
        rows[CHOOSE i \in 1..Len(rows) :
                /\ rows[i].category = c
                /\ \A j \in (i + 1)..Len(rows) : rows[j].category # c].drug_status]

\* the overall status taken from the first category alone
OverallStatusOfFirst(categories, statuses_by_category) ==
    IF categories # <<>> THEN statuses_by_category[categories[1]] ELSE "not_listed"

\* the overall status of a drug: preferred if any category is preferred
OverallStatus(categories, statuses_by_category) ==
    LET all_statuses == {statuses_by_category[c] : c \in DOMAIN statuses_by_category}
    IN IF "preferred" \in all_statuses THEN "preferred"
       ELSE IF "non_preferred" \in all_statuses THEN "non_preferred"
       ELSE IF categories # <<>> THEN statuses_by_category[categories[1]]
       ELSE "not_listed"

\* the categories list of a drug: one entry appended per row
Categories(rows) == Column(rows, "category")

\* one logical drug from its rows (rows is not empty)
AggregateDrug(rows) ==
    LET categories == Categories(rows)
        statuses_by_category == StatusesByCategory(rows)
    IN [drug_name |-> rows[1].drug_name,
        pa_mnd_required |-> rows[1].pa_mnd_required,
        categories |-> categories,
        statuses_by_category |-> statuses_by_category,
        drug_status |-> OverallStatus(categories, statuses_by_category)]

\* the loop over drugs_dict: one logical drug per name, in order of the
\* first row of each name
AggregateByName(rows) ==
    LET names == Distinct(Column(rows, "drug_name"), <<>>)
    IN [i \in 1..Len(names) |->
            AggregateDrug(SelectSeq(rows, LAMBDA r : r.drug_name = names[i]))]

fetch_drug_by_name(table, name) ==
    LET exact == ExecuteRead(SelectSeq(table, LAMBDA r : ILike(r.drug_name, name)))
        matched == fuzzy_match_drug_name(name, fetch_all_drug_names(table), 70)
        rows == IF exact # <<>> THEN exact
                ELSE IF ~Truthy(matched[1]) \/ matched[2] < 70 THEN <<>>
                ELSE ExecuteRead(SelectSeq(table, LAMBDA r : ILike(r.drug_name, matched[1])))
    IN IF rows = <<>> THEN NoneRec ELSE AggregateDrug(rows)

RECURSIVE CategoryRowsWithSource(_, _, _, _)
\* the loop over the categories without the exclusion of the source drug
CategoryRowsWithSource(table, categories, actual_drug_name, drug_status) ==
    IF categories = <<>> THEN <<>>
    ELSE OrderByName(SelectSeq(table, LAMBDA r :
                /\ Eq(r.category, Head(categories))
                /\ (Truthy(drug_status) => Eq(r.drug_status, drug_status))))
         \o CategoryRowsWithSource(table, Tail(categories), actual_drug_name, drug_status)

RECURSIVE CategoryRows(_, _, _, _)
\* the loop over the categories of fetch_alternatives; each pass reads
\* every page of one category
CategoryRows(table, categories, actual_drug_name, drug_status) ==
    IF categories = <<>> THEN <<>>
    ELSE OrderByName(SelectSeq(table, LAMBDA r :
                /\ Eq(r.category, Head(categories))
                /\ r.drug_name # actual_drug_name
                /\ (Truthy(drug_status) => Eq(r.drug_status, drug_status))))
         \o CategoryRows(table, Tail(categories), actual_drug_name, drug_status)

fetch_alternatives(table, drug_name, drug_status) ==
    LET drug_info == fetch_drug_by_name(table, drug_name)
    IN IF drug_info = NoneRec THEN <<>>
       ELSE IF drug_info.categories = <<>> THEN <<>>
       ELSE AggregateByName(CategoryRows(table, drug_info.categories, drug_info.drug_name, drug_status))

RECURSIVE ReplaceCh(_, _, _)
\* str.replace for one-character strings
ReplaceCh(s, a, b) ==
    IF s = "" THEN ""
    ELSE (IF At(s, 1) = a THEN b ELSE At(s, 1)) \o ReplaceCh(SubSeq(s, 2, Len(s)), a, b)

get_non_preferred_drugs_with_preferred_alternatives(table) ==
    LET non_preferred == ExecuteRead(SelectSeq(table, LAMBDA r : Eq(r.drug_status, "non_preferred") /\ r.category # None))
        preferred == ExecuteRead(SelectSeq(table, LAMBDA r : Eq(r.drug_status, "preferred") /\ r.category # None))
        categories_with_preferred == {preferred[i].category : i \in {j \in 1..Len(preferred) : Truthy(preferred[j].category)}}
        kept == SelectSeq(non_preferred, LAMBDA r : r.category \in categories_with_preferred)
        drugs == AggregateByName(kept)
    IN [i \in 1..Len(drugs) |-> [drugs[i] EXCEPT !.drug_status = "non_preferred"]]

FilterMatches(r, filters) ==
    /\ Truthy(Get(filters, "drug_status")) =>
         LET status == ReplaceCh(Lower(filters["drug_status"]), "-", "_")
         IN status \in {"preferred", "non_preferred", "not_listed"} => Eq(r.drug_status, status)
    /\ Truthy(Get(filters, "pa_mnd_required")) =>
         LET pa_mnd == Lower(filters["pa_mnd_required"])
         IN pa_mnd \in {"yes", "no", "unknown"} => Eq(r.pa_mnd_required, pa_mnd)
    /\ Truthy(Get(filters, "category")) => ILikeContains(r.category, filters["category"])

filter_drugs(table, filters) ==
    IF Truthy(Get(filters, "has_preferred_alternative"))
    THEN get_non_preferred_drugs_with_preferred_alternatives(table)
    ELSE AggregateByName(ExecuteRead(OrderByName(SelectSeq(table, LAMBDA r : FilterMatches(r, filters)))))

\* the scores of fuzzy_search_drug_db in whole points: every comparison
\* the callers make is against a whole number
ContainsScore(name, query_normalized) ==
    LET pos == Find(Lower(name), query_normalized)
        score == 70 + ((20 * Len(query_normalized)) \div Len(name)) - (pos * 2)
    IN MaxOf(60, IF score > 89 THEN 89 ELSE score)

RECURSIVE InsertScored(_, _)
InsertScored(sorted, x) ==
    IF sorted = <<>> THEN <<x>>
    ELSE IF x[2] > Head(sorted)[2] THEN <<x>> \o sorted
    ELSE <<Head(sorted)>> \o InsertScored(Tail(sorted), x)

RECURSIVE SortByScore(_)
\* list.sort(key=score, reverse=True): stable
SortByScore(xs) ==
    IF xs = <<>> THEN <<>>
    ELSE InsertScored(SortByScore(SubSeq(xs, 1, Len(xs) - 1)), xs[Len(xs)])

\* returns [] as well when the storage read raises
fuzzy_search_drug_db(table, query_, limit) ==
    LET query_normalized == Lower(Strip(query_))
        exact == ExecuteRead(Limit(SelectSeq(table, LAMBDA r : ILike(r.drug_name, query_normalized)), 1))
        prefix == ExecuteRead(Limit(SelectSeq(table, LAMBDA r : ILikePrefix(r.drug_name, query_normalized)), limit))
        contains == ExecuteRead(Limit(SelectSeq(table, LAMBDA r : ILikeContains(r.drug_name, query_normalized)), limit * 2))
    IN IF exact # <<>> THEN << <<exact[1].drug_name, 100>> >>
       ELSE IF prefix # <<>> THEN [i \in 1..Len(prefix) |-> <<prefix[i].drug_name, 90>>]
       ELSE IF contains # <<>>
       THEN Limit(SortByScore([i \in 1..Len(contains) |->
                     <<contains[i].drug_name, ContainsScore(contains[i].drug_name, query_normalized)>>]), limit)
       ELSE <<>>

-----------------------------------------------------------------------------
(* utils/llm.py.  The text an HTTP attempt returns is a record: text is    *)
(* the message content, in which "{...}" stands for one well-formed JSON   *)
(* object, and json is the value json.loads gives for that object.  A JSON *)
(* value of the filters key is a record [kind, d, s]: a mapping d, a       *)
(* string s, or null.                                                      *)

max_retries == 3

NoJson == EmptyDict
\* the value call_openrouter returns when every attempt failed
NoResponse == [text |-> None, json |-> NoJson]

FiltersDict(d) == [kind |-> "dict", d |-> d, s |-> ""]
FiltersStr(str) == [kind |-> "str", d |-> EmptyDict, s |-> str]
FiltersNull == [kind |-> "null", d |-> EmptyDict, s |-> ""]

\* bool(filters) for a JSON value
FiltersTruthy(f) ==
    \/ f.kind = "dict" /\ DOMAIN f.d # {}
    \/ f.kind = "str" /\ f.s # ""

\* json.loads of the block between the first '{' and the last '}'
JSONDecodeError == [error |-> "JSONDecodeError"]
JsonLoads(json_str, content) == IF json_str = "{...}" THEN content.json ELSE JSONDecodeError

\* 'key' in intent['filters'] followed by intent['filters']['key']: raises
\* TypeError for null and for a string that holds the key
FiltersLookupRaises(f, key) ==
    \/ f.kind = "null"
    \/ f.kind = "str" /\ Find(f.s, key) >= 0

\* the validation of one enumerated filter field
Whitelist(f, key, valid) ==
    IF f.kind = "dict" /\ key \in DOMAIN f.d /\ f.d[key] \notin valid
    THEN [f EXCEPT !.d = Put(f.d, key, None)]
    ELSE f

\* extract_intent_with_llm without the check of the query type
extract_intent_with_llm_any_type(resp) ==
    IF ~Truthy(resp.text) THEN NoneRec
    ELSE LET stripped == Strip(resp.text)
             start == Find(stripped, "{")
             end == RFind(stripped, "}") + 1
             intent == JsonLoads(SubSeq(stripped, start + 1, end), resp)
         IN IF start = -1 \/ end = -1 THEN NoneRec
            ELSE IF intent = JSONDecodeError THEN NoneRec
            ELSE IF ~({"query_type", "drug_name", "filters"} \subseteq DOMAIN intent) THEN NoneRec
            ELSE IF FiltersLookupRaises(intent["filters"], "drug_status") THEN NoneRec
            ELSE IF FiltersLookupRaises(intent["filters"], "pa_mnd_required") THEN NoneRec
            ELSE [query_type |-> intent["query_type"],
                  drug_name |-> intent["drug_name"],
                  filters |-> Whitelist(Whitelist(intent["filters"], "drug_status",
                                                  {"preferred", "non_preferred", None}),
                                        "pa_mnd_required", {"yes", "no", None}),
                  confidence |-> 75,
                  method |-> "llm_fallback"]

\* the part of extract_intent_with_llm that follows call_openrouter
extract_intent_with_llm(resp) ==
    IF ~Truthy(resp.text) THEN NoneRec
    ELSE LET stripped == Strip(resp.text)
             start == Find(stripped, "{")
             end == RFind(stripped, "}") + 1
             intent == JsonLoads(SubSeq(stripped, start + 1, end), resp)
         IN IF start = -1 \/ end = -1 THEN NoneRec
            ELSE IF intent = JSONDecodeError THEN NoneRec
            ELSE IF ~({"query_type", "drug_name", "filters"} \subseteq DOMAIN intent) THEN NoneRec
            ELSE IF intent["query_type"] \notin {"drug_status", "alternatives", "list_filter"} THEN NoneRec
            ELSE IF FiltersLookupRaises(intent["filters"], "drug_status") THEN NoneRec
            ELSE IF FiltersLookupRaises(intent["filters"], "pa_mnd_required") THEN NoneRec
            ELSE [query_type |-> intent["query_type"],
                  drug_name |-> intent["drug_name"],
                  filters |-> Whitelist(Whitelist(intent["filters"], "drug_status",
                                                  {"preferred", "non_preferred", None}),
                                        "pa_mnd_required", {"yes", "no", None}),
                  confidence |-> 75,
                  method |-> "llm_fallback"]

-----------------------------------------------------------------------------
(* app.py *)

execute_query(table, intent) ==
    IF intent.query_type = "drug_status"
    THEN IF ~Truthy(intent.drug_name) THEN <<>>
         ELSE LET result == fetch_drug_by_name(table, intent.drug_name)
              IN IF result = NoneRec THEN <<>> ELSE <<result>>
    ELSE IF intent.query_type = "alternatives"
    THEN IF ~Truthy(intent.drug_name) THEN <<>>
         ELSE fetch_alternatives(table, intent.drug_name,
                                 IF DOMAIN intent.filters # {} THEN Get(intent.filters, "drug_status") ELSE None)
    ELSE IF intent.query_type = "list_filter"
    THEN filter_drugs(table, intent.filters)
    ELSE <<>>

\* an execute_query that reads storage for every intent
ReadsStorageAlways(intent) == TRUE

\* whether execute_query issues a storage read for the intent
ReadsStorage(intent) ==
    intent.query_type \in {"drug_status", "alternatives"} => Truthy(intent.drug_name)

\* the local all_drug_names: None, or the list that was fetched
NotLoaded == [loaded |-> FALSE, names |-> <<>>]
Loaded(names) == [loaded |-> TRUE, names |-> names]

\* step 1 of process_query
InitialParse(query_) ==
    [query_type |-> detect_query_type(query_)[1],
     confidence |-> detect_query_type(query_)[2],
     drug_name |-> None,
     drug_confidence |-> 0,
     filters |-> extract_filters(query_),
     method |-> "rule_based"]

\* step 2 of process_query; search_ok and catalog_ok say whether the
\* storage answers the approximate search and the catalog fetch.  The
\* result holds the intent, the catalog, the collaborator calls made and
\* whether an exception left the block.
ResolveDrugName(query_, intent, table, search_ok, catalog_ok) ==
    LET skip == [intent |-> intent, names |-> NotLoaded, calls |-> <<>>, raised |-> FALSE]
        potential_drug == extract_drug_name_from_query(query_, <<>>)
        db_matches == IF search_ok THEN fuzzy_search_drug_db(table, potential_drug[1], 3) ELSE <<>>
        names == fetch_all_drug_names(table)
        local == extract_drug_name_from_query(query_, names)
    IN IF intent.query_type \notin {"drug_status", "alternatives"} THEN skip
       ELSE IF ~Truthy(potential_drug[1]) THEN skip
       ELSE IF db_matches # <<>> /\ db_matches[1][2] >= 70
       THEN [intent |-> [intent EXCEPT !.drug_name = db_matches[1][1],
                                       !.drug_confidence = db_matches[1][2]],
             names |-> NotLoaded,
             calls |-> <<"fuzzy_search_drug_db">>,
             raised |-> FALSE]
       ELSE IF ~catalog_ok
       THEN [intent |-> intent, names |-> NotLoaded,
             calls |-> <<"fuzzy_search_drug_db", "fetch_all_drug_names">>, raised |-> TRUE]
       ELSE [intent |-> [intent EXCEPT !.drug_name = local[1], !.drug_confidence = local[2]],
             names |-> Loaded(names),
             calls |-> <<"fuzzy_search_drug_db", "fetch_all_drug_names">>
                       \o (IF Truthy(local[1]) /\ local[2] < 90 THEN <<"suggest_corrections">> ELSE <<>>),
             raised |-> FALSE]

\* the three assignments of the merge, in program order
MergeDrugName(intent, llm) ==
    IF Truthy(llm.drug_name) /\ ~Truthy(intent.drug_name)
    THEN [intent EXCEPT !.drug_name = llm.drug_name]
    ELSE intent

\* a merge of the query type that takes the fallback's method and
\* confidence along
MergeQueryTypeWithMethod(intent, llm) ==
    IF Truthy(llm.query_type)
    THEN [intent EXCEPT !.query_type = llm.query_type, !.method = llm.method, !.confidence = llm.confidence]
    ELSE intent

MergeQueryType(intent, llm) ==
    IF Truthy(llm.query_type) THEN [intent EXCEPT !.query_type = llm.query_type] ELSE intent

\* the filters merge with the rule-based value kept on a key collision
MergeFiltersKeepingOwn(intent, llm) ==
    IF FiltersTruthy(llm.filters) THEN [intent EXCEPT !.filters = Update(llm.filters.d, intent.filters)] ELSE intent

MergeFilters(intent, llm) ==
    IF FiltersTruthy(llm.filters) THEN [intent EXCEPT !.filters = Update(intent.filters, llm.filters.d)] ELSE intent

\* dict.update raises for a non-empty string
MergeRaises(llm) == FiltersTruthy(llm.filters) /\ llm.filters.kind # "dict"

MergeIntent(intent, llm) ==
    IF MergeRaises(llm) THEN MergeQueryType(MergeDrugName(intent, llm), llm)
    ELSE MergeFilters(MergeQueryType(MergeDrugName(intent, llm), llm), llm)

-----------------------------------------------------------------------------
(* The requests, the table and the collaborators' answers *)

Queries ==
    {"", "   ", "Keytruda", "Ketruda status", "Tell me about Humira",
     "Is Keytruda preferred?", "Is Remicade preferred?",
     "What are alternatives to Remicade?", "preferred alternatives to Humira",
     "List all preferred oncology drugs", "List preferred oncology drugs",
     "Show all drugs requiring PA", "non-preferred drugs having preferred options",
     "list drugs with no pa"}

Row(name, category, status, pa_mnd) ==
    [drug_name |-> name, category |-> category, drug_status |-> status, pa_mnd_required |-> pa_mnd]

\* the table the requests run against
PipelineStore ==
    <<Row("Keytruda", "Oncology", "preferred", "yes"),
      Row("Humira", "Immunology", "preferred", "no"),
      Row("Remicade", "Immunology", "non_preferred", "yes"),
      Row("Remicade", "Gastroenterology", "preferred", "yes"),
      Row("Entyvio", "Gastroenterology", "non_preferred", "no")>>

Object(query_type, drug_name, filters) ==
    [query_type |-> query_type, drug_name |-> drug_name, filters |-> filters]

LlmFilters ==
    {FiltersNull, FiltersStr("none"), FiltersStr(""), FiltersDict(EmptyDict),
     FiltersDict([drug_status |-> "preferred"]),
     FiltersDict([drug_status |-> "non-preferred", pa_mnd_required |-> None, category |-> None]),
     FiltersDict([drug_status |-> None, pa_mnd_required |-> "maybe", category |-> "oncology"]),
     FiltersDict([pa_mnd_required |-> "yes", category |-> "immunology"])}

LlmQueryTypes == {"drug_status", "alternatives", "list_filter", "drug_lookup"}
LlmDrugNames == {None, "", "Keytruda", "Remicad"}

LlmObjects ==
    {Object(t, n, f) : t \in LlmQueryTypes, n \in LlmDrugNames, f \in LlmFilters}
    \cup {[query_type |-> "drug_status", drug_name |-> "Keytruda"],
          [query_type |-> "list_filter", filters |-> FiltersDict(EmptyDict)],
          EmptyDict}

\* what a successful HTTP attempt may return to each caller
Contents(fn) ==
    IF fn = "extract_intent_with_llm"
    THEN {[text |-> "{...}", json |-> o] : o \in LlmObjects}
         \cup {[text |-> t, json |-> Object("drug_status", "Keytruda", FiltersDict(EmptyDict))] :
                 t \in {"", "   ", "I cannot help with that.", "{", "}{", "{...} {...}",
                        "Here is the JSON: {...}\n"}}
    ELSE {[text |-> t, json |-> NoJson] : t \in {"", "### Answer"}}

-----------------------------------------------------------------------------
(* process_query as a state machine: one action per step between two       *)
(* collaborator calls.                                                     *)

pipe_vars == <<pc, query, parsed_intent, all_drug_names, llm_intent, results,
               answer, calls, caller, attempt, sleeps, response>>
gate_vars == <<gate_in, gate_out>>
db_vars == <<db_op, db_out>>
fn_vars == <<fn_op, fn_out>>
api_vars == <<request_counts, clock, api_req, api_resp>>

Cleared ==
    /\ query = None
    /\ parsed_intent = NoneRec
    /\ all_drug_names = NotLoaded
    /\ llm_intent = NoneRec
    /\ results = <<>>
    /\ answer = None
    /\ calls = <<>>
    /\ caller = None
    /\ attempt = 0
    /\ sleeps = <<>>
    /\ response = NoResponse

PipeOff == pc = "off" /\ Cleared
GateOff == gate_in = NoneRec /\ gate_out = <<>>
DbOff == db_op = <<>> /\ db_out = <<>>
FnOff == fn_op = <<>> /\ fn_out = <<>>
ApiOff == request_counts = EmptyDict /\ clock = 0 /\ api_req = <<>> /\ api_resp = <<>>

\* the blank-query check and step 1
Submit ==
    /\ pc = "idle"
    /\ \E q \in Queries :
         /\ query' = q
         /\ IF ~Truthy(q) \/ ~Truthy(Strip(q))
            THEN pc' = "rejected" /\ parsed_intent' = parsed_intent
            ELSE pc' = "resolve" /\ parsed_intent' = InitialParse(q)
    /\ UNCHANGED <<all_drug_names, llm_intent, results, answer, calls, caller,
                   attempt, sleeps, response, store, max_rows, gate_vars, db_vars, fn_vars, api_vars>>

\* step 2
ResolveName ==
    /\ pc = "resolve"
    /\ \E search_ok \in BOOLEAN, catalog_ok \in BOOLEAN :
         LET r == ResolveDrugName(query, parsed_intent, store, search_ok, catalog_ok)
         IN /\ pc' = IF r.raised THEN "error" ELSE "gate"
            /\ parsed_intent' = r.intent
            /\ all_drug_names' = r.names
            /\ calls' = calls \o r.calls
    /\ UNCHANGED <<query, llm_intent, results, answer, caller, attempt, sleeps,
                   response, store, max_rows, gate_vars, db_vars, fn_vars, api_vars>>

\* step 3 up to the call of call_openrouter
Gate ==
    /\ pc = "gate"
    /\ IF should_use_llm_fallback(parsed_intent)
       THEN \E catalog_ok \in BOOLEAN :
              IF ~all_drug_names.loaded /\ ~catalog_ok
              THEN /\ pc' = "error"
                   /\ calls' = Append(calls, "fetch_all_drug_names")
                   /\ UNCHANGED <<all_drug_names, caller, attempt, sleeps>>
              ELSE /\ pc' = "http"
                   /\ all_drug_names' = IF all_drug_names.loaded THEN all_drug_names
                                        ELSE Loaded(fetch_all_drug_names(store))
                   /\ calls' = calls
                               \o (IF all_drug_names.loaded THEN <<>> ELSE <<"fetch_all_drug_names">>)
                               \o <<"extract_intent_with_llm">>
                   /\ caller' = "extract_intent_with_llm"
                   /\ attempt' = 1
                   /\ sleeps' = <<>>
       ELSE /\ pc' = "execute"
            /\ UNCHANGED <<all_drug_names, calls, caller, attempt, sleeps>>
    /\ UNCHANGED <<query, parsed_intent, llm_intent, results, answer, response,
                   store, max_rows, gate_vars, db_vars, fn_vars, api_vars>>

ReturnPoint == IF caller = "extract_intent_with_llm" THEN "merge" ELSE "finish"

\* one pass of the loop of call_openrouter in which requests.post succeeds
HttpSuccess ==
    /\ pc = "http"
    /\ \E content \in Contents(caller) : response' = content
    /\ calls' = Append(calls, "requests.post")
    /\ pc' = ReturnPoint
    /\ UNCHANGED <<query, parsed_intent, all_drug_names, llm_intent, results, answer,
                   caller, attempt, sleeps, store, max_rows, gate_vars, db_vars, fn_vars, api_vars>>

\* a failed pass that waits 2 seconds whatever the attempt
HttpFailureFixedDelay ==
    /\ pc = "http"
    /\ calls' = Append(calls, "requests.post")
    /\ IF attempt < max_retries
       THEN /\ sleeps' = Append(sleeps, 2)
            /\ attempt' = attempt + 1
            /\ UNCHANGED <<pc, response>>
       ELSE /\ response' = NoResponse
            /\ pc' = ReturnPoint
            /\ UNCHANGED <<attempt, sleeps>>
    /\ UNCHANGED <<query, parsed_intent, all_drug_names, llm_intent, results, answer,
                   caller, store, max_rows, gate_vars, db_vars, fn_vars, api_vars>>

\* one pass in which it raises
HttpFailure ==
    /\ pc = "http"
    /\ calls' = Append(calls, "requests.post")
    /\ IF attempt < max_retries
       THEN /\ sleeps' = Append(sleeps, 2 * attempt)
            /\ attempt' = attempt + 1
            /\ UNCHANGED <<pc, response>>
       ELSE /\ response' = NoResponse
            /\ pc' = ReturnPoint
            /\ UNCHANGED <<attempt, sleeps>>
    /\ UNCHANGED <<query, parsed_intent, all_drug_names, llm_intent, results, answer,
                   caller, store, max_rows, gate_vars, db_vars, fn_vars, api_vars>>

\* the rest of extract_intent_with_llm and the merge of step 3
Merge ==
    /\ pc = "merge"
    /\ llm_intent' = extract_intent_with_llm(response)
    /\ IF llm_intent' = NoneRec
       THEN pc' = "execute" /\ parsed_intent' = parsed_intent
       ELSE /\ parsed_intent' = MergeIntent(parsed_intent, llm_intent')
            /\ pc' = IF MergeRaises(llm_intent') THEN "error" ELSE "execute"
    /\ UNCHANGED <<query, all_drug_names, results, answer, calls, caller, attempt,
                   sleeps, response, store, max_rows, gate_vars, db_vars, fn_vars, api_vars>>

\* step 4
Execute ==
    /\ pc = "execute"
    /\ calls' = Append(calls, "execute_query")
    /\ \E storage_ok \in BOOLEAN :
         IF ReadsStorage(parsed_intent) /\ ~storage_ok
         THEN pc' = "error" /\ results' = results
         ELSE pc' = "answer" /\ results' = execute_query(store, parsed_intent)
    /\ UNCHANGED <<query, parsed_intent, all_drug_names, llm_intent, answer, caller,
                   attempt, sleeps, response, store, max_rows, gate_vars, db_vars, fn_vars, api_vars>>

\* step 5 up to the call of call_openrouter
GenerateAnswer ==
    /\ pc = "answer"
    /\ calls' = Append(calls, "generate_answer_with_llm")
    /\ caller' = "generate_answer_with_llm"
    /\ attempt' = 1
    /\ sleeps' = <<>>
    /\ pc' = "http"
    /\ UNCHANGED <<query, parsed_intent, all_drug_names, llm_intent, results, answer,
                   response, store, max_rows, gate_vars, db_vars, fn_vars, api_vars>>

\* the rest of generate_answer_with_llm and the display of the answer
Finish ==
    /\ pc = "finish"
    /\ answer' = IF Truthy(response.text) THEN response.text ELSE "format_answer_fallback"
    /\ pc' = "done"
    /\ UNCHANGED <<query, parsed_intent, all_drug_names, llm_intent, results, calls,
                   caller, attempt, sleeps, response, store, max_rows, gate_vars, db_vars, fn_vars, api_vars>>

\* the next run of the script: every local is fresh
NextRequest ==
    /\ pc \in {"done", "error", "rejected"}
    /\ pc' = "idle"
    /\ query' = None
    /\ parsed_intent' = NoneRec
    /\ all_drug_names' = NotLoaded
    /\ llm_intent' = NoneRec
    /\ results' = <<>>
    /\ answer' = None
    /\ calls' = <<>>
    /\ caller' = None
    /\ attempt' = 0
    /\ sleeps' = <<>>
    /\ response' = NoResponse
    /\ UNCHANGED <<store, max_rows, gate_vars, db_vars, fn_vars, api_vars>>

Init ==
    /\ pc = "idle"
    /\ Cleared
    /\ store = PipelineStore
    /\ max_rows = DefaultMaxRows
    /\ GateOff
    /\ DbOff
    /\ FnOff
    /\ ApiOff

Next ==
    \/ Submit
    \/ ResolveName
    \/ Gate
    \/ HttpSuccess
    \/ HttpFailure
    \/ Merge
    \/ Execute
    \/ GenerateAnswer
    \/ Finish
    \/ NextRequest

Spec == Init /\ [][Next]_vars

-----------------------------------------------------------------------------
(* should_use_llm_fallback on its own: the callers outside process_query   *)
(* pass it any parse result.                                               *)

GateIntents ==
    [query_type : {"drug_status", "alternatives", "list_filter"},
     confidence : {30, 69, 70, 85, 90},
     drug_name : {None, "", "Keytruda"},
     drug_confidence : {0, 69, 70, 100}]

GateCall ==
    /\ GateOff
    /\ \E parse_result \in GateIntents :
         /\ gate_in' = parse_result
         /\ gate_out' = <<should_use_llm_fallback(parse_result)>>
    /\ UNCHANGED <<pipe_vars, store, max_rows, db_vars, fn_vars, api_vars>>

GateInit ==
    /\ PipeOff
    /\ store = <<>>
    /\ max_rows = DefaultMaxRows
    /\ GateOff
    /\ DbOff
    /\ FnOff
    /\ ApiOff

GateNext == GateCall

SpecGate == GateInit /\ [][GateNext]_vars

-----------------------------------------------------------------------------
(* The reads of utils/db.py on their own: one read against every small     *)
(* table.                                                                  *)

\* the greatest number of rows of a table
MaxRows == 2

DbNames == {"Humira", "HUMIRA", "Remicade"}
DbCategories == {"Immunology", "Oncology"}
DbStatuses == {"preferred", "non_preferred", "not_listed"}

\* the rows ingest_data.py writes: a listed drug has a category and a
\* status, a drug known from the PA/MND list only has neither
DbRows ==
    {Row(n, c, s, "no") : n \in DbNames, c \in DbCategories, s \in DbStatuses}
    \cup {Row(n, None, None, "yes") : n \in DbNames}

\* PRIMARY KEY (drug_name, category)
KeyOk(table) ==
    \A i \in 1..Len(table), j \in 1..Len(table) :
        i # j => <<table[i].drug_name, table[i].category>> # <<table[j].drug_name, table[j].category>>

Tables == UNION {{table \in [1..n -> DbRows] : KeyOk(table)} : n \in 0..MaxRows}

DbFilters ==
    {EmptyDict,
     [drug_status |-> "non-preferred"],
     [pa_mnd_required |-> "yes"],
     [category |-> "onc"],
     [drug_status |-> "preferred", category |-> "onc"],
     [drug_status |-> "non_preferred", has_preferred_alternative |-> True],
     [drug_status |-> "preferred", has_preferred_alternative |-> True]}

DbFetchDrugByName ==
    /\ DbOff
    /\ \E name \in {"humira", "Remicad"} :
         /\ db_op' = <<"fetch_drug_by_name", name>>
         /\ db_out' = fetch_drug_by_name(store, name)
    /\ UNCHANGED <<pipe_vars, store, max_rows, gate_vars, fn_vars, api_vars>>

DbFetchAlternatives ==
    /\ DbOff
    /\ \E name \in {"humira"}, drug_status \in {None, "preferred"} :
         /\ db_op' = <<"fetch_alternatives", name, drug_status>>
         /\ db_out' = fetch_alternatives(store, name, drug_status)
    /\ UNCHANGED <<pipe_vars, store, max_rows, gate_vars, fn_vars, api_vars>>

DbFilterDrugs ==
    /\ DbOff
    /\ \E filters \in DbFilters :
         /\ db_op' = <<"filter_drugs", filters>>
         /\ db_out' = filter_drugs(store, filters)
    /\ UNCHANGED <<pipe_vars, store, max_rows, gate_vars, fn_vars, api_vars>>

DbGetNonPreferred ==
    /\ DbOff
    /\ db_op' = <<"get_non_preferred_drugs_with_preferred_alternatives">>
    /\ db_out' = get_non_preferred_drugs_with_preferred_alternatives(store)
    /\ UNCHANGED <<pipe_vars, store, max_rows, gate_vars, fn_vars, api_vars>>

DbInit ==
    /\ PipeOff
    /\ store \in Tables
    /\ max_rows = DefaultMaxRows
    /\ GateOff
    /\ DbOff
    /\ FnOff
    /\ ApiOff

DbNext ==
    \/ DbFetchDrugByName
    \/ DbFetchAlternatives
    \/ DbFilterDrugs
    \/ DbGetNonPreferred

SpecDb == DbInit /\ [][DbNext]_vars

-----------------------------------------------------------------------------
(* The functions of utils/intent.py and utils/fuzzy.py on their own: one   *)
(* call with every query, name list and threshold below.                   *)

FnQueries ==
    {h \o m \o t :
        h \in {"", "List ", "List all ", "Show both ", "only ", "Is Humira ", "Alternatives to Humira ",
               "List alternatives to Humira "},
        m \in {"", "preferred", "non-preferred", "not preferred"},
        t \in {"", " drugs", " oncology drugs", " drugs requiring PA", " drugs with no pa",
               " drugs, doesn't require PA", " without MND needed", " cancer options"}}

FnDetectQueryType ==
    /\ FnOff
    /\ \E q \in FnQueries :
         /\ fn_op' = <<"detect_query_type", q>>
         /\ fn_out' = detect_query_type(q)
    /\ UNCHANGED <<pipe_vars, store, max_rows, gate_vars, db_vars, api_vars>>

FnExtractFilters ==
    /\ FnOff
    /\ \E q \in FnQueries :
         /\ fn_op' = <<"extract_filters", q>>
         /\ fn_out' = extract_filters(q)
    /\ UNCHANGED <<pipe_vars, store, max_rows, gate_vars, db_vars, api_vars>>

FnFuzzyMatch ==
    /\ FnOff
    /\ \E q \in {"", "   ", "humira", " Humira ", "humra", "remicade xr", "zzz"},
          drug_names \in {<<>>, <<"Humira", "HUMIRA">>, <<"HUMIRA", "Humira", "Remicade">>,
                           <<"Remicade", "Keytruda">>, <<"Humira~", "Remicade">>},
          threshold \in {0, 50, 70, 100, 101} :
         /\ fn_op' = <<"fuzzy_match_drug_name", q, drug_names, threshold>>
         /\ fn_out' = fuzzy_match_drug_name(q, drug_names, threshold)
    /\ UNCHANGED <<pipe_vars, store, max_rows, gate_vars, db_vars, api_vars>>

FnExtractDrugName ==
    /\ FnOff
    /\ \E q \in {"", "humra", "Is Humira preferred?", "pen humira status", "humira remicade",
                  "ax bx cx dx", "zz yy", "tell me about Remicad please"},
          drug_names \in {<<>>, <<"Humira", "Humira Pen", "Remicade">>, <<"abcd", "Remicade", "Humira">>} :
         /\ fn_op' = <<"extract_drug_name_from_query", q, drug_names>>
         /\ fn_out' = extract_drug_name_from_query(q, drug_names)
    /\ UNCHANGED <<pipe_vars, store, max_rows, gate_vars, db_vars, api_vars>>

FnNormalize ==
    /\ FnOff
    /\ \E name \in {None, "", "  ", "Humira", "HUMIRA", " Humira  Pen ", "Humira^", "Humira~ Pen",
                     "Humira$", "humira pen"} :
         /\ fn_op' = <<"normalize_drug_name", name>>
         /\ fn_out' = normalize_drug_name(name)
    /\ UNCHANGED <<pipe_vars, store, max_rows, gate_vars, db_vars, api_vars>>

FnInit ==
    /\ PipeOff
    /\ store = <<>>
    /\ max_rows = DefaultMaxRows
    /\ GateOff
    /\ DbOff
    /\ FnOff
    /\ ApiOff

FnNext ==
    \/ FnDetectQueryType
    \/ FnExtractFilters
    \/ FnFuzzyMatch
    \/ FnExtractDrugName
    \/ FnNormalize

SpecFn == FnInit /\ [][FnNext]_vars

-----------------------------------------------------------------------------
(* filter_drugs against a store whose limit on the rows of one read is     *)
(* smaller than the table: the 1000 rows of the deployment are scaled to   *)
(* 1 .. MaxRows rows, the table to at most MaxRows + 1 rows.               *)

PageRows ==
    {Row(n, "Oncology", s, pa) : n \in {"Entyvio", "Humira", "Remicade"},
                                  s \in {"preferred", "non_preferred"}, pa \in {"no"}}

PageTables == UNION {{table \in [1..n -> PageRows] : KeyOk(table)} : n \in 0..(MaxRows + 1)}

PageInit ==
    /\ PipeOff
    /\ store \in PageTables
    /\ max_rows \in 1..MaxRows
    /\ GateOff
    /\ DbOff
    /\ FnOff
    /\ ApiOff

PageNext == DbFilterDrugs

SpecPage == PageInit /\ [][PageNext]_vars

-----------------------------------------------------------------------------
(* The read functions of utils/db.py against a store that raises: the      *)
(* fail_at-th read the call issues raises, the reads before it succeed.    *)
(* Every read of a table this small is answered in one page.               *)

\* an exception leaving the function
Raised == [raised |-> TRUE]

MaxFailAt == 4

RECURSIVE ReadsIssued(_, _)
\* the number of reads the call issues when no read raises
ReadsIssued(table, call) ==
    IF call[1] = "fetch_drug_by_name"
    THEN IF \E i \in 1..Len(table) : ILike(table[i].drug_name, call[2]) THEN 1
         ELSE IF fuzzy_match_drug_name(call[2], fetch_all_drug_names(table), 70)[2] < 70 THEN 2
         ELSE 3
    ELSE IF call[1] = "fetch_alternatives"
    THEN ReadsIssued(table, <<"fetch_drug_by_name", call[2]>>)
         + (IF fetch_drug_by_name(table, call[2]) = NoneRec THEN 0
            ELSE Len(fetch_drug_by_name(table, call[2]).categories))
    ELSE IF call[1] = "fuzzy_search_drug_db"
    THEN IF \E i \in 1..Len(table) : ILike(table[i].drug_name, Lower(Strip(call[2]))) THEN 1
         ELSE IF \E i \in 1..Len(table) : ILikePrefix(table[i].drug_name, Lower(Strip(call[2]))) THEN 2
         ELSE 3
    ELSE 1

\* the call's outcome: its try block is left at the read that raises,
\* through "raise" in every function but fuzzy_search_drug_db, whose
\* handler returns []
CallWithStorageError(table, call, fail_at) ==
    IF fail_at <= ReadsIssued(table, call)
    THEN (IF call[1] = "fuzzy_search_drug_db" THEN <<>> ELSE Raised)
    ELSE IF call[1] = "fetch_drug_by_name" THEN fetch_drug_by_name(table, call[2])
    ELSE IF call[1] = "fetch_alternatives" THEN fetch_alternatives(table, call[2], call[3])
    ELSE IF call[1] = "fuzzy_search_drug_db" THEN fuzzy_search_drug_db(table, call[2], call[3])
    ELSE IF call[1] = "filter_drugs" THEN filter_drugs(table, call[2])
    ELSE fetch_all_drug_names(table)

DbReadRaises ==
    /\ DbOff
    /\ \E call \in {<<"fetch_drug_by_name", "humira">>, <<"fetch_drug_by_name", "Remicad">>,
                     <<"fetch_alternatives", "humira", None>>,
                     <<"fuzzy_search_drug_db", "humira", 3>>, <<"fuzzy_search_drug_db", "remi", 3>>,
                     <<"fuzzy_search_drug_db", "mica", 3>>,
                     <<"filter_drugs", EmptyDict>>, <<"filter_drugs", [category |-> "onc"]>>,
                     <<"fetch_all_drug_names">>},
          fail_at \in 1..MaxFailAt :
         /\ db_op' = <<"storage raises", call, fail_at>>
         /\ db_out' = CallWithStorageError(store, call, fail_at)
    /\ UNCHANGED <<pipe_vars, store, max_rows, gate_vars, fn_vars, api_vars>>

SpecRaise == DbInit /\ [][DbReadRaises]_vars

-----------------------------------------------------------------------------
(* api.py: the rate limiter.  Time is in whole seconds and passes in steps *)
(* of ClockStep.                                                           *)

RATE_LIMIT == 100
RATE_WINDOW == 60

ClockStep == 30
MaxClock == 60
\* the most requests of the caller with an API key
MaxKeyRequests == 1

\* request_counts.get(identifier, [])
CountsOf(counts, identifier) == IF identifier \in DOMAIN counts THEN counts[identifier] ELSE <<>>

\* the limiter that rejects only above the limit
check_rate_limit_above(counts, x_api_key, current_time) ==
    LET identifier == IF Truthy(x_api_key) THEN x_api_key ELSE "anonymous"
        kept == SelectSeq(CountsOf(counts, identifier), LAMBDA timestamp : current_time - timestamp < RATE_WINDOW)
    IN IF Len(kept) > RATE_LIMIT
       THEN [status |-> 429, counts |-> Put(counts, identifier, kept)]
       ELSE [status |-> 200, counts |-> Put(counts, identifier, Append(kept, current_time))]

\* check_rate_limit: the status of the request and request_counts after it
check_rate_limit(counts, x_api_key, current_time) ==
    LET identifier == IF Truthy(x_api_key) THEN x_api_key ELSE "anonymous"
        kept == SelectSeq(CountsOf(counts, identifier), LAMBDA timestamp : current_time - timestamp < RATE_WINDOW)
    IN IF Len(kept) >= RATE_LIMIT
       THEN [status |-> 429, counts |-> Put(counts, identifier, kept)]
       ELSE [status |-> 200, counts |-> Put(counts, identifier, Append(kept, current_time))]

\* a request passing through the dependency check_rate_limit
CheckRateLimit ==
    /\ \E x_api_key \in {None, "", "key-1"} :
         /\ Truthy(x_api_key) => Len(CountsOf(request_counts, x_api_key)) < MaxKeyRequests
         /\ api_req' = <<"check_rate_limit", x_api_key>>
         /\ api_resp' = [status |-> check_rate_limit(request_counts, x_api_key, clock).status]
         /\ request_counts' = check_rate_limit(request_counts, x_api_key, clock).counts
    /\ UNCHANGED <<pipe_vars, store, max_rows, gate_vars, db_vars, fn_vars, clock>>

\* time passes
Tick ==
    /\ clock + ClockStep <= MaxClock
    /\ clock' = clock + ClockStep
    /\ UNCHANGED <<pipe_vars, store, max_rows, gate_vars, db_vars, fn_vars, request_counts, api_req, api_resp>>

RateInit ==
    /\ PipeOff
    /\ store = <<>>
    /\ max_rows = DefaultMaxRows
    /\ GateOff
    /\ DbOff
    /\ FnOff
    /\ ApiOff

RateNext == CheckRateLimit \/ Tick

SpecRate == RateInit /\ [][RateNext]_vars

-----------------------------------------------------------------------------
(* api.py: POST /api/search with use_llm = false.  Whether DrugResponse    *)
(* accepts a result without the key category depends on the installed      *)
(* pydantic: category_optional is that choice.                              *)

\* whether DrugResponse(**r) raises a validation error for a result: the
\* results carry no key category, and drug_status has to be a str
DrugResponseRaises(results_, category_optional) ==
    /\ results_ # <<>>
    /\ ~category_optional \/ \E i \in 1..Len(results_) : results_[i].drug_status = None

\* [DrugResponse(**r) for r in results]
DrugResponses(results_) ==
    [i \in 1..Len(results_) |->
        [drug_name |-> results_[i].drug_name, drug_status |-> results_[i].drug_status,
         category |-> None, pa_mnd_required |-> results_[i].pa_mnd_required]]

\* the body of search_drugs after the drug name was looked for
SearchResponse(table, query_type, filters, drug_name, category_optional) ==
    LET results_ == IF query_type = "drug_status"
                    THEN (IF fetch_drug_by_name(table, drug_name) = NoneRec THEN <<>>
                          ELSE <<fetch_drug_by_name(table, drug_name)>>)
                    ELSE IF query_type = "alternatives"
                    THEN fetch_alternatives(table, drug_name, Get(filters, "drug_status"))
                    ELSE IF query_type = "list_filter" THEN filter_drugs(table, filters)
                    ELSE <<>>
    IN IF query_type = "drug_status" /\ ~Truthy(drug_name)
       THEN [status |-> 400, detail |-> "Could not identify drug name in query"]
       ELSE IF query_type = "alternatives" /\ ~Truthy(drug_name)
       THEN [status |-> 400, detail |-> "Could not identify drug name for alternatives"]
       ELSE IF DrugResponseRaises(results_, category_optional)
       THEN [status |-> 500, detail |-> "Query processing failed"]
       ELSE [status |-> 200, success |-> TRUE,
             results |-> DrugResponses(results_),
             metadata |-> [query_type |-> query_type, results_count |-> Len(results_), llm_used |-> FALSE]]

search_drugs(table, query_, category_optional) ==
    LET query_type == detect_query_type(query_)[1]
        potential_drug == extract_drug_name_from_query(query_, <<>>)
        db_matches == fuzzy_search_drug_db(table, potential_drug[1], 1)
    IN IF Len(query_) < 3 THEN [status |-> 422, detail |-> "min_length"]
       ELSE SearchResponse(table, query_type, extract_filters(query_),
                           IF /\ query_type \in {"drug_status", "alternatives"}
                              /\ Truthy(potential_drug[1])
                              /\ db_matches # <<>>
                              /\ db_matches[1][2] >= 70
                           THEN db_matches[1][1]
                           ELSE None,
                           category_optional)

\* one request to POST /api/search, through check_rate_limit
ApiSearch ==
    /\ api_req = <<>>
    /\ \E query_ \in Queries \cup FnQueries, category_optional \in BOOLEAN :
         /\ api_req' = <<"POST /api/search", query_, FALSE, category_optional>>
         /\ request_counts' = check_rate_limit(request_counts, None, clock).counts
         /\ api_resp' = IF check_rate_limit(request_counts, None, clock).status = 429
                        THEN [status |-> 429, detail |-> "Rate limit exceeded"]
                        ELSE search_drugs(store, query_, category_optional)
    /\ UNCHANGED <<pipe_vars, store, max_rows, gate_vars, db_vars, fn_vars, clock>>

SpecApi == Init /\ [][ApiSearch]_vars

-----------------------------------------------------------------------------
(* Properties *)

\* C1: should_use_llm_fallback returns true exactly when confidence < 70,
\* or the query type is drug_status or alternatives and the drug name is
\* null or empty or drug_confidence < 70; for a list_filter intent with
\* confidence >= 70 it returns false whatever drug_name and drug_confidence
C1_GateIff ==
    gate_out # <<>> =>
        /\ gate_out[1] <=>
             \/ gate_in.confidence < 70
             \/ /\ gate_in.query_type \in {"drug_status", "alternatives"}
                /\ (gate_in.drug_name \in {None, ""} \/ gate_in.drug_confidence < 70)
        /\ (gate_in.query_type = "list_filter" /\ gate_in.confidence >= 70) => gate_out[1] = FALSE

\* a list_filter intent of confidence 70 without a drug name: no fallback
C1_ListFilterNotGated ==
    /\ gate_out = <<FALSE>>
    /\ gate_in.query_type = "list_filter"
    /\ gate_in.confidence = 70
    /\ gate_in.drug_name = None
    /\ gate_in.drug_confidence = 0

\* the keys the fallback's filters bring to the merge
LlmKeys(llm) == IF llm.filters.kind = "dict" THEN DOMAIN llm.filters.d ELSE {}

\* the rule-based filters overridden key by key by the fallback's
Overridden(filters, llm) ==
    [k \in DOMAIN filters \cup LlmKeys(llm) |->
        IF k \in LlmKeys(llm) THEN llm.filters.d[k] ELSE filters[k]]

\* C2 as stated: after a fallback result the merged intent has the
\* rule-based drug_name if that was non-null and otherwise the fallback's
\* drug_name, the fallback's query_type, and the rule-based filters
\* overridden key by key by the fallback's filters
C2_MergeAsStated ==
    [][(pc = "merge" /\ llm_intent' # NoneRec) =>
         /\ parsed_intent'.drug_name =
              IF parsed_intent.drug_name # None THEN parsed_intent.drug_name
              ELSE llm_intent'.drug_name
         /\ parsed_intent'.query_type = llm_intent'.query_type
         /\ parsed_intent'.filters = Overridden(parsed_intent.filters, llm_intent')]_vars

\* C2: after a fallback result the merged intent has the rule-based
\* drug_name if that was non-empty, otherwise the fallback's drug_name if
\* that is non-empty, otherwise the rule-based value; it has the fallback's
\* query_type; its filters are the rule-based filters overridden key by key
\* by the fallback's filters when these are a mapping and the rule-based
\* filters otherwise; confidence, drug_confidence and method are kept
C2_MergeRules ==
    [][(pc = "merge" /\ llm_intent' # NoneRec) =>
         /\ parsed_intent'.drug_name =
              IF parsed_intent.drug_name \notin {None, ""} THEN parsed_intent.drug_name
              ELSE IF llm_intent'.drug_name \notin {None, ""} THEN llm_intent'.drug_name
              ELSE parsed_intent.drug_name
         /\ parsed_intent'.query_type = llm_intent'.query_type
         /\ parsed_intent'.filters = Overridden(parsed_intent.filters, llm_intent')
         /\ parsed_intent'.confidence = parsed_intent.confidence
         /\ parsed_intent'.drug_confidence = parsed_intent.drug_confidence
         /\ parsed_intent'.method = parsed_intent.method]_vars

\* a merge in which the fallback's empty drug_name was not adopted, one of
\* its filters replaced a rule-based one and a rule-based filter was kept
C2_MergedWithEmptyName ==
    /\ pc = "execute"
    /\ llm_intent # NoneRec
    /\ llm_intent.drug_name = ""
    /\ parsed_intent.drug_name = None
    /\ parsed_intent.query_type = llm_intent.query_type
    /\ \E k \in DOMAIN parsed_intent.filters :
         k \in LlmKeys(llm_intent) /\ parsed_intent.filters[k] = llm_intent.filters.d[k]
    /\ \E k \in DOMAIN parsed_intent.filters : k \notin LlmKeys(llm_intent)

\* C3: whenever the query executor is dispatched, every filter key holds a
\* recognized value: drug_status is preferred, non_preferred or not_listed,
\* pa_mnd_required is yes, no or unknown, and no key holds null
C3_DispatchedFiltersRecognized ==
    pc = "execute" =>
        \A k \in DOMAIN parsed_intent.filters :
            /\ parsed_intent.filters[k] # None
            /\ k = "drug_status" => parsed_intent.filters[k] \in {"preferred", "non_preferred", "not_listed"}
            /\ k = "pa_mnd_required" => parsed_intent.filters[k] \in {"yes", "no", "unknown"}

\* the answers of the LLM for which the intent collaborator returns null:
\* no answer after the retries, no JSON object or a malformed one, a
\* required key missing, an invalid query type
NullCause ==
    \/ response.text \notin {"{...}", "Here is the JSON: {...}\n"}
    \/ ~({"query_type", "drug_name", "filters"} \subseteq DOMAIN response.json)
    \/ response.json.query_type \notin {"drug_status", "alternatives", "list_filter"}

\* whether an external collaborator raised: a storage read, or an HTTP
\* attempt of the retry loop
CollaboratorRaised ==
    /\ calls # <<>>
    /\ calls[Len(calls)] \in {"fetch_all_drug_names", "execute_query"} \/ sleeps # <<>>

\* C4: when the gate fired and the answer of the LLM is one for which the
\* intent collaborator returns null, the intent is left exactly as the
\* rule-based stage produced it and the request goes on to query execution;
\* a request whose fallback returned null is in the error state only after
\* a collaborator raised
C4_NullFallbackProceeds ==
    /\ []((pc = "error" /\ llm_intent = NoneRec) => CollaboratorRaised)
    /\ [][(pc = "merge" /\ NullCause) =>
            /\ llm_intent' = NoneRec
            /\ parsed_intent' = parsed_intent
            /\ pc' = "execute"]_vars

\* the executor was dispatched after the LLM answered with well-formed JSON
\* of an invalid query type
C4_InvalidTypeThenExecute ==
    /\ pc = "execute"
    /\ calls # <<>>
    /\ calls[Len(calls)] = "requests.post"
    /\ llm_intent = NoneRec
    /\ response.text = "{...}"
    /\ {"query_type", "drug_name", "filters"} \subseteq DOMAIN response.json
    /\ response.json.query_type = "drug_lookup"

\* the waits before the attempts 2 .. n + 1
Backoff(n) == [i \in 1..n |-> 2 * i]

RECURSIVE TrailingPosts(_)
\* the number of HTTP attempts at the end of the call log
TrailingPosts(log) ==
    IF log = <<>> \/ log[Len(log)] # "requests.post" THEN 0
    ELSE 1 + TrailingPosts(SubSeq(log, 1, Len(log) - 1))

\* C5: call_openrouter makes at most 3 HTTP attempts; it returns the
\* content of the first successful attempt without a further attempt; when
\* all 3 attempts fail it returns null after exactly 3 attempts; it waits 2
\* seconds, then 4 seconds, between consecutive attempts and does not wait
\* after the last one
C5_BoundedRetry ==
    /\ [](/\ attempt <= 3
          /\ pc = "http" => sleeps = Backoff(attempt - 1) /\ TrailingPosts(calls) = attempt - 1
          /\ pc \in {"merge", "finish"} =>
               /\ sleeps = Backoff(attempt - 1)
               /\ TrailingPosts(calls) = attempt
               /\ response = NoResponse => attempt = 3)
    /\ [][pc = "http" =>
            \/ pc' = "http" /\ attempt < 3 /\ attempt' = attempt + 1
            \/ /\ pc' # "http"
               /\ attempt' = attempt
               /\ sleeps' = sleeps
               /\ \/ response' \in Contents(caller)
                  \/ attempt = 3 /\ response' = NoResponse]_vars

\* call_openrouter returned null after three failed attempts
C5_ThreeFailures ==
    /\ pc = "merge"
    /\ attempt = 3
    /\ sleeps = <<2, 4>>
    /\ TrailingPosts(calls) = 3
    /\ response = NoResponse

\* whether step 2 accepted a result of the server-side search
ServerAccepted ==
    /\ \E i \in 1..Len(calls) : calls[i] = "fuzzy_search_drug_db"
    /\ \A i \in 1..Len(calls) : calls[i] # "fetch_all_drug_names"
    /\ parsed_intent.drug_confidence >= 70

\* C6: for a drug_status or alternatives query whose server-side search
\* gave no result scoring >= 70, the catalog is loaded and drug_name and
\* drug_confidence are those of extract_drug_name_from_query against it
\* when the gate is evaluated
C6_CatalogFallback ==
    (/\ pc = "gate"
     /\ parsed_intent.query_type \in {"drug_status", "alternatives"}
     /\ ~ServerAccepted) =>
        /\ all_drug_names.loaded
        /\ <<parsed_intent.drug_name, parsed_intent.drug_confidence>>
             = SubSeq(extract_drug_name_from_query(query, all_drug_names.names), 1, 2)

\* C7: for a drug_status or alternatives query of at least one word the
\* server-side search has been issued when the gate is evaluated
C7_ServerSearchIssued ==
    (pc = "gate" /\ parsed_intent.query_type \in {"drug_status", "alternatives"}) =>
        \E i \in 1..Len(calls) : calls[i] = "fuzzy_search_drug_db"

\* the positions of a call in the log
Positions(fn) == {i \in 1..Len(calls) : calls[i] = fn}

\* C8: extract_intent_with_llm is called at most once and before
\* execute_query; a request that completed called execute_query and then
\* generate_answer_with_llm exactly once each; a request ends in the error
\* state only after a collaborator raised; a blank query makes no call
C8_Sequential ==
    /\ Cardinality(Positions("extract_intent_with_llm")) <= 1
    /\ \A i \in Positions("extract_intent_with_llm"), j \in Positions("execute_query") : i < j
    /\ pc = "done" =>
         /\ Cardinality(Positions("execute_query")) = 1
         /\ Cardinality(Positions("generate_answer_with_llm")) = 1
         /\ \A i \in Positions("execute_query"), j \in Positions("generate_answer_with_llm") : i < j
    /\ pc = "error" => CollaboratorRaised
    /\ pc = "rejected" => calls = <<>>

\* the LogicalDrugs the read returned
Returned ==
    IF db_op = <<>> THEN {}
    ELSE IF db_op[1] = "fetch_drug_by_name" THEN (IF db_out = NoneRec THEN {} ELSE {db_out})
    ELSE {db_out[i] : i \in 1..Len(db_out)}

\* the values of statuses_by_category
StatusValues(d) == {d.statuses_by_category[c] : c \in DOMAIN d.statuses_by_category}

\* C9: every LogicalDrug returned by fetch_drug_by_name, fetch_alternatives,
\* filter_drugs or get_non_preferred_drugs_with_preferred_alternatives has
\* drug_status preferred exactly when a value of statuses_by_category is
\* preferred; otherwise non_preferred if a value is non_preferred, else the
\* first status, else not_listed
C9_OverallStatus ==
    \A d \in Returned :
        /\ d.drug_status = "preferred" <=> "preferred" \in StatusValues(d)
        /\ "preferred" \notin StatusValues(d) =>
             d.drug_status = IF "non_preferred" \in StatusValues(d) THEN "non_preferred"
                             ELSE IF d.categories # <<>> THEN d.statuses_by_category[d.categories[1]]
                             ELSE "not_listed"

\* a drug whose first category is non_preferred and whose second is
\* preferred was returned as preferred
C9_PreferredInLaterCategory ==
    \E d \in Returned :
        /\ Len(d.categories) = 2
        /\ d.statuses_by_category[d.categories[1]] = "non_preferred"
        /\ d.statuses_by_category[d.categories[2]] = "preferred"
        /\ d.drug_status = "preferred"

\* C10: in every LogicalDrug returned, categories holds no value twice and
\* has one entry per key of statuses_by_category
C10_CategoriesUnique ==
    \A d \in Returned :
        /\ \A i \in 1..Len(d.categories), j \in 1..Len(d.categories) :
              i # j => d.categories[i] # d.categories[j]
        /\ Len(d.categories) = Cardinality(DOMAIN d.statuses_by_category)

\* the rows of a drug in the table
RowsOf(name) == SelectSeq(store, LAMBDA r : r.drug_name = name)
\* the names in the table
StoreNames == {store[i].drug_name : i \in 1..Len(store)}
\* the categories of a drug over all of its rows
CategorySet(name) == {RowsOf(name)[i].category : i \in 1..Len(RowsOf(name))}
\* the status of a drug aggregated over all of its rows
AggregatedStatus(name) == OverallStatus(Categories(RowsOf(name)), StatusesByCategory(RowsOf(name)))
\* the values of a sequence
Range(xs) == {xs[i] : i \in 1..Len(xs)}

\* C11: filter_drugs with filters {drug_status: s, category: c} returns
\* exactly the drugs whose status aggregated over all of their rows is s and
\* one of whose categories contains c, each with its full category set and
\* that aggregated status
C11_StatusCategoryFilter ==
    (/\ db_op # <<>>
     /\ db_op[1] = "filter_drugs"
     /\ DOMAIN db_op[2] = {"drug_status", "category"}) =>
        /\ {d.drug_name : d \in Returned}
             = {n \in StoreNames : /\ AggregatedStatus(n) = db_op[2].drug_status
                                   /\ \E k \in CategorySet(n) : ILikeContains(k, db_op[2].category)}
        /\ \A d \in Returned :
             /\ d.drug_status = db_op[2].drug_status
             /\ Range(d.categories) = CategorySet(d.drug_name)

\* the drugs with a non_preferred row in a non-null category that holds a
\* preferred row
NonPreferredWithPreferred ==
    {n \in StoreNames :
        \E i \in 1..Len(store), j \in 1..Len(store) :
            /\ store[i].drug_name = n
            /\ store[i].drug_status = "non_preferred"
            /\ store[i].category # None
            /\ store[j].category = store[i].category
            /\ store[j].drug_status = "preferred"}

\* the drugs with a row the filters select
Selected(filters) ==
    IF Truthy(Get(filters, "has_preferred_alternative")) THEN NonPreferredWithPreferred
    ELSE {n \in StoreNames : \E i \in 1..Len(store) : store[i].drug_name = n /\ FilterMatches(store[i], filters)}

\* C12: filter_drugs returns every drug that has a row satisfying the
\* filters, also when more rows match than the store returns for one read,
\* in the plain path and in the has_preferred_alternative path
C12_NoDrugLostToTruncation ==
    (db_op # <<>> /\ db_op[1] = "filter_drugs") =>
        Selected(db_op[2]) \subseteq {d.drug_name : d \in Returned}

\* C13: the result list of a list_filter intent, the has_preferred_alternative
\* case included, is in ascending order of drug_name and holds each
\* drug_name at most once
C13_ListSortedUnique ==
    (parsed_intent # NoneRec /\ parsed_intent.query_type = "list_filter") =>
        \A i \in 1..Len(results), j \in 1..Len(results) :
            i < j => StrLess(results[i].drug_name, results[j].drug_name)

\* the drugs other than d with a row, of status s when s is given, in one of
\* the categories of d
SharingCategory(d, s) ==
    {n \in StoreNames \ {d.drug_name} :
        \E i \in 1..Len(store) :
            /\ store[i].drug_name = n
            /\ store[i].category # None
            /\ store[i].category \in Range(d.categories)
            /\ Truthy(s) => store[i].drug_status = s}

\* what fetch_alternatives owes for the resolved drug d (NoneRec when the
\* name is not found) and the requested status s
AlternativesOf(d, s) ==
    /\ \A i \in 1..Len(db_out), j \in 1..Len(db_out) : i # j => db_out[i].drug_name # db_out[j].drug_name
    /\ IF d = NoneRec \/ Range(d.categories) \subseteq {None}
       THEN db_out = <<>>
       ELSE /\ {x.drug_name : x \in Returned} = SharingCategory(d, s)
            /\ \A x \in Returned : x.drug_name # d.drug_name
            /\ Truthy(s) => \A x \in Returned : x.drug_status = s

\* C14: fetch_alternatives(d, s) returns exactly the drugs other than d with
\* a row in one of the categories of d (rows of status s only when s is
\* given, every returned drug then having status s); d is never returned,
\* each drug is returned once, and the result is empty when d is not found
\* or has no category
C14_Alternatives ==
    (db_op # <<>> /\ db_op[1] = "fetch_alternatives") =>
        AlternativesOf(fetch_drug_by_name(store, db_op[2]), db_op[3])

\* a preferred alternative was returned for a drug found in the table
C14_PreferredAlternativeReturned ==
    /\ db_op = <<"fetch_alternatives", "humira", "preferred">>
    /\ Len(db_out) = 1
    /\ db_out[1].drug_name = "Remicade"
    /\ db_out[1].drug_status = "preferred"

\* whether the table holds a row of the drug, the category and the status
HasRow(name, category, status) ==
    \E i \in 1..Len(store) :
        /\ store[i].drug_name = name
        /\ store[i].category = category
        /\ store[i].drug_status = status

\* C15: with has_preferred_alternative = true filter_drugs returns exactly
\* the drugs with a non_preferred row in a non-null category that holds a
\* preferred row; every returned drug is non_preferred and lists only such
\* categories, whatever drug_status filter is given alongside
C15_HasPreferredAlternative ==
    (/\ db_op # <<>>
     /\ db_op[1] = "filter_drugs"
     /\ Truthy(Get(db_op[2], "has_preferred_alternative"))) =>
        /\ {d.drug_name : d \in Returned} = NonPreferredWithPreferred
        /\ \A d \in Returned :
             /\ d.drug_status = "non_preferred"
             /\ \A c \in Range(d.categories) :
                  /\ c # None
                  /\ HasRow(d.drug_name, c, "non_preferred")
                  /\ \E n \in StoreNames : HasRow(n, c, "preferred")

\* what detect_query_type owes for the lower-cased query q
FirstMatch(q) ==
    /\ fn_out \in {<<"alternatives", 90>>, <<"list_filter", 85>>, <<"drug_status", 85>>, <<"drug_status", 30>>}
    /\ alternatives_patterns(q) => fn_out = <<"alternatives", 90>>
    /\ (~alternatives_patterns(q) /\ list_patterns(q)) => fn_out = <<"list_filter", 85>>
    /\ (~alternatives_patterns(q) /\ ~list_patterns(q) /\ status_patterns(q)) => fn_out = <<"drug_status", 85>>
    /\ (~alternatives_patterns(q) /\ ~list_patterns(q) /\ ~status_patterns(q)) => fn_out = <<"drug_status", 30>>

\* C16: for every string, the empty one included, detect_query_type returns
\* (alternatives, 90) if an alternatives pattern matches, otherwise
\* (list_filter, 85) if a list pattern matches, otherwise (drug_status, 85)
\* if a status pattern matches, otherwise (drug_status, 30), and no other
\* pair
C16_FirstMatchPrecedence ==
    (fn_op # <<>> /\ fn_op[1] = "detect_query_type") => FirstMatch(Lower(fn_op[2]))

\* a query matching an alternatives pattern, a list pattern and a status
\* pattern was classified as alternatives
C16_AlternativesBeforeList ==
    /\ fn_op = <<"detect_query_type", "List alternatives to Humira preferred drugs">>
    /\ list_patterns(Lower(fn_op[2]))
    /\ fn_out = <<"alternatives", 90>>

\* the lower-cased query q uses the word preferred, holds no non-preferred
\* or not preferred token and does not ask for alternatives to a drug
PreferredAsStatusWord(q) ==
    /\ Search(BBoth(q, Lit(q, "preferred")))
    /\ ~Search(BBoth(q, NonPreferredRe(q) \cup Lit(q, "not preferred")))
    /\ ~Search(Star(q, BBoth(q, Lits(q, AlternativeWords)), BBoth(q, Lit(q, "to"))))

\* C17: for a query using preferred as a status word, without a
\* non-preferred or not preferred token and without alternatives-to
\* phrasing, extract_filters sets drug_status = preferred, also after the
\* word all; "List all preferred oncology drugs" gives exactly
\* {drug_status: preferred, category: oncology}
C17_PreferredStatusExtracted ==
    (fn_op # <<>> /\ fn_op[1] = "extract_filters") =>
        /\ PreferredAsStatusWord(Lower(fn_op[2])) => Get(fn_out, "drug_status") = "preferred"
        /\ fn_op[2] = "List all preferred oncology drugs" =>
             fn_out = [drug_status |-> "preferred", category |-> "oncology"]

\* PA/MND vocabulary, a negation phrase and a requirement verb in the
\* lower-cased query q
PaMndVocabulary(q) ==
    Search(BBoth(q, Lits(q, {"pa", "prior auth", "preauth", "prior authorization", "mnd", "medical necessity"})
                    \cup Maybe(q, Lit(q, "pre"), Lit(q, "auth"))))
NegationPhrase(q) ==
    Search(BBoth(q, Lits(q, {"no pa", "without pa", "no mnd", "without mnd"})
                    \cup Maybe(q, Lit(q, "doesn"), Lit(q, "t require"))))
RequirementVerb(q) ==
    Search(BBoth(q, Lits(q, {"require", "requires", "requiring", "need", "needed"})))

\* what extract_filters owes for pa_mnd_required on the lower-cased query q
PaMndOf(q) ==
    /\ (PaMndVocabulary(q) /\ NegationPhrase(q)) => Get(fn_out, "pa_mnd_required") = "no"
    /\ (PaMndVocabulary(q) /\ RequirementVerb(q) /\ ~NegationPhrase(q)) => Get(fn_out, "pa_mnd_required") = "yes"
    /\ ~PaMndVocabulary(q) => "pa_mnd_required" \notin DOMAIN fn_out

\* C18: with PA/MND vocabulary and a negation phrase extract_filters sets
\* pa_mnd_required = no; with a requirement verb and no negation phrase it
\* sets yes; without PA/MND vocabulary the key is absent
C18_NegationGivesNo ==
    (fn_op # <<>> /\ fn_op[1] = "extract_filters") => PaMndOf(Lower(fn_op[2]))

\* the positions of the candidates whose normalized form is that of the query
ExactPositions(query_, drug_names) ==
    {i \in 1..Len(drug_names) : normalize_drug_name(drug_names[i]) = normalize_drug_name(query_)}

\* C19: when a candidate normalizes to the normalized query,
\* fuzzy_match_drug_name returns confidence 100 with such a candidate for
\* every threshold, and of several such candidates the earliest in the list
C19_ExactMatchFirst ==
    (/\ fn_op # <<>>
     /\ fn_op[1] = "fuzzy_match_drug_name"
     /\ Truthy(fn_op[2])
     /\ ExactPositions(fn_op[2], fn_op[3]) # {}) =>
        /\ fn_out[2] = 100
        /\ \E i \in ExactPositions(fn_op[2], fn_op[3]) :
             /\ fn_out[1] = fn_op[3][i]
             /\ \A j \in ExactPositions(fn_op[2], fn_op[3]) : i <= j

\* no candidate scores at least the threshold against the query
AllBelow(query_, drug_names, threshold) ==
    \A i \in 1..Len(drug_names) :
        ~ScoreAtLeast(token_sort_ratio(normalize_drug_name(query_), normalize_drug_name(drug_names[i])), threshold)

\* what fuzzy_match_drug_name owes for a query, a candidate list and a
\* threshold
MatchWithin(query_, drug_names, threshold) ==
    /\ \/ fn_out = <<None, 0>>
       \/ /\ fn_out[1] \in Range(drug_names)
          /\ fn_out[2] = 100 \/ (threshold <= fn_out[2] /\ fn_out[2] <= 100)
    /\ (~Truthy(query_) \/ drug_names = <<>>) => fn_out = <<None, 0>>
    /\ (ExactPositions(query_, drug_names) = {} /\ AllBelow(query_, drug_names, threshold)) => fn_out = <<None, 0>>

\* C20: the result of fuzzy_match_drug_name is (null, 0) or (c, s) with c a
\* candidate of the list and s = 100 or threshold <= s <= 100; an empty
\* query or an empty list gives (null, 0), and so does a best score below
\* the threshold when no candidate matches exactly
C20_MatchWithinBounds ==
    (fn_op # <<>> /\ fn_op[1] = "fuzzy_match_drug_name") => MatchWithin(fn_op[2], fn_op[3], fn_op[4])

\* a misspelt query was matched to a candidate with a score between the
\* threshold and 100
C20_CloseMatchAccepted ==
    /\ fn_op = <<"fuzzy_match_drug_name", "humra", <<"HUMIRA", "Humira", "Remicade">>, 70>>
    /\ fn_out = <<"Humira", 90>>

\* what extract_drug_name_from_query owes, given the matches of the 1-, 2-
\* and 3-word windows at threshold 60, in generation order, and the match
\* of the whole query at threshold 50
ExtractedFrom(matches, whole, drug_names) ==
    /\ fn_out[3] \in {"empty_query", "no_match", "extracted_from_query", "full_query_match"}
    /\ fn_out[3] = "extracted_from_query" =>
         /\ fn_out[1] \in Range(drug_names)
         /\ fn_out[2] >= 60
         /\ \E i \in 1..Len(matches) :
              /\ <<fn_out[1], fn_out[2]>> = matches[i]
              /\ \A j \in 1..Len(matches) : matches[j][2] <= matches[i][2]
              /\ \A j \in 1..(i - 1) : matches[j][2] < matches[i][2]
    /\ fn_out[3] = "full_query_match" =>
         /\ \A i \in 1..Len(matches) : matches[i][2] < 60
         /\ <<fn_out[1], fn_out[2]>> = whole
         /\ fn_out[1] # None
         /\ fn_out[2] >= 50
    /\ fn_out[3] \in {"empty_query", "no_match"} => (fn_out[1] = None /\ fn_out[2] = 0)

\* C21: extract_drug_name_from_query returns extracted_from_query only with
\* a catalog name whose confidence is >= 60 and the greatest over all 1-,
\* 2- and 3-word windows, the earliest window winning ties;
\* full_query_match only when no window reached 60 and the whole query
\* matched at >= 50; empty_query and no_match only with (null, 0)
C21_BestWindow ==
    (fn_op # <<>> /\ fn_op[1] = "extract_drug_name_from_query") =>
        ExtractedFrom([i \in 1..Len(Windows(Split(fn_op[2]), 1)) |->
                          fuzzy_match_drug_name(Windows(Split(fn_op[2]), 1)[i], fn_op[3], 60)],
                      fuzzy_match_drug_name(fn_op[2], fn_op[3], 50), fn_op[3])

\* two windows matched different names at confidence 100 and the name of
\* the earlier window was returned
C21_EarliestWindowWins ==
    /\ fn_op = <<"extract_drug_name_from_query", "humira remicade", <<"Humira", "Humira Pen", "Remicade">>>>
    /\ fn_out = <<"Humira", 100, "extracted_from_query">>

\* the trademark, registration and service-mark glyphs
MarkGlyphs == {"^", "~", "$"}

\* C22: normalize_drug_name is idempotent, maps null and the empty string
\* to the empty string, and gives the same output for inputs that differ
\* only in letter case, surrounding whitespace, internal whitespace runs or
\* the presence of trademark, registration or service-mark glyphs
C22_NormalizeInvariant ==
    (fn_op # <<>> /\ fn_op[1] = "normalize_drug_name") =>
        /\ normalize_drug_name(fn_out) = fn_out
        /\ fn_op[2] \in {None, ""} => fn_out = ""
        /\ fn_op[2] # None =>
             /\ normalize_drug_name(Lower(fn_op[2])) = fn_out
             /\ normalize_drug_name("  " \o fn_op[2] \o " ") = fn_out
             /\ normalize_drug_name(CollapseSpace(fn_op[2])) = fn_out
             /\ \A g \in MarkGlyphs : normalize_drug_name(Remove(fn_op[2], g)) = fn_out

\* a FilterSet whose drug_status and pa_mnd_required are whitelisted
\* values or null
WhitelistedFilters(f) ==
    /\ f.kind = "dict"
    /\ Get(f.d, "drug_status") \in {"preferred", "non_preferred", None}
    /\ Get(f.d, "pa_mnd_required") \in {"yes", "no", None}

\* C23: extract_intent_with_llm returns a non-null intent only if the
\* response contains the keys query_type, drug_name and filters and its
\* query_type is one of drug_status, alternatives, list_filter; in every
\* returned intent filters.drug_status is preferred, non_preferred or null
\* and filters.pa_mnd_required is yes, no or null; every other response
\* yields null without raising
C23_WhitelistedIntent ==
    [][(pc = "merge" /\ llm_intent' # NoneRec) =>
          /\ Find(response.text, "{...}") >= 0
          /\ {"query_type", "drug_name", "filters"} \subseteq DOMAIN response.json
          /\ response.json.query_type \in {"drug_status", "alternatives", "list_filter"}
          /\ llm_intent'.query_type = response.json.query_type
          /\ WhitelistedFilters(llm_intent'.filters)]_vars

\* C24: execute_query on an intent of type drug_status or alternatives
\* whose drug_name is null returns the empty list without a storage read and
\* without raising, whether the rule-based stage or the fallback merge set
\* the type, and the request goes on to the answer without a second
\* dispatch
C24_NullNameNotFound ==
    [][(pc = "execute" /\ parsed_intent.query_type \in {"drug_status", "alternatives"}
          /\ parsed_intent.drug_name = None) =>
          /\ results' = <<>>
          /\ pc' = "answer"
          /\ parsed_intent' = parsed_intent
          /\ Cardinality({i \in 1..Len(calls') : calls'[i] = "execute_query"}) = 1]_vars

\* the fallback merge turned an alternatives query into a drug_status query
\* without a drug name, and the executor answered it with the empty list
C24_MergedTypeWithoutName ==
    /\ pc = "answer"
    /\ calls[Len(calls)] = "execute_query"
    /\ detect_query_type(query)[1] = "alternatives"
    /\ llm_intent # NoneRec
    /\ parsed_intent.query_type = "drug_status"
    /\ parsed_intent.drug_name = None
    /\ results = <<>>

\* whether the table holds a row whose name equals the looked-up name up to
\* letter case
ExactRow == \E i \in 1..Len(store) : ILike(store[i].drug_name, db_op[2])

\* C25: a LogicalDrug that fetch_drug_by_name resolved through the fuzzy
\* retry at threshold 70, after the exact case-insensitive match found no
\* row, carries the fuzzy-match provenance (matched flag, confidence,
\* original query text); a result of the exact match carries none; a name
\* that neither match resolves yields no result
C25_FuzzyProvenance ==
    (db_op # <<>> /\ db_op[1] = "fetch_drug_by_name") =>
        /\ (~ExactRow /\ db_out # NoneRec) =>
             /\ Get(db_out, "_fuzzy_match") = True
             /\ Get(db_out, "_fuzzy_confidence") =
                    fuzzy_match_drug_name(db_op[2], fetch_all_drug_names(store), 70)[2]
             /\ Get(db_out, "_original_query") = db_op[2]
        /\ (ExactRow /\ db_out # NoneRec) => "_fuzzy_match" \notin DOMAIN db_out
        /\ (~ExactRow /\ fuzzy_match_drug_name(db_op[2], fetch_all_drug_names(store), 70)[1] = None) =>
             db_out = NoneRec

\* C26: when the storage collaborator raises during a read issued for a
\* request (exact lookup, approximate search, category read, filter read,
\* catalog fetch), the failure leaves the function as a failure of the
\* request; it is never turned into an empty or partial result
C26_StorageFailurePropagates ==
    (db_op # <<>> /\ db_op[1] = "storage raises" /\ db_op[3] <= ReadsIssued(store, db_op[2])) =>
        db_out = Raised

\* the caller identifier of an API key
IdentifierOf(x_api_key) == IF Truthy(x_api_key) THEN x_api_key ELSE "anonymous"

\* the recorded timestamps of the identifier that lie within the window
\* that ends at time now
Recent(counts, identifier, now) ==
    SelectSeq(CountsOf(counts, identifier), LAMBDA timestamp : now - timestamp < RATE_WINDOW)

\* C28: for every caller identifier and after any sequence of requests,
\* check_rate_limit has admitted at most 100 requests whose timestamps lie
\* within the preceding 60 seconds; a request rejected with 429 is not
\* recorded, an admitted request is recorded exactly once, and the requests
\* of one identifier never count against another
C28_RateLimit ==
    /\ [](\A identifier \in DOMAIN request_counts :
            Len(Recent(request_counts, identifier, clock)) <= RATE_LIMIT)
    /\ [][clock' = clock =>
            /\ api_resp'.status = 429 =>
                 /\ Len(Recent(request_counts, IdentifierOf(api_req'[2]), clock)) >= RATE_LIMIT
                 /\ request_counts'[IdentifierOf(api_req'[2])]
                        = Recent(request_counts, IdentifierOf(api_req'[2]), clock)
            /\ api_resp'.status = 200 =>
                 /\ Len(Recent(request_counts, IdentifierOf(api_req'[2]), clock)) < RATE_LIMIT
                 /\ request_counts'[IdentifierOf(api_req'[2])]
                        = Append(Recent(request_counts, IdentifierOf(api_req'[2]), clock), clock)
            /\ \A other \in DOMAIN request_counts' \ {IdentifierOf(api_req'[2])} :
                 /\ other \in DOMAIN request_counts
                 /\ request_counts'[other] = request_counts[other]]_vars

\* the anonymous caller was rejected at its limit, reached with requests
\* of two different seconds, while the caller with a key had been admitted
C28_RejectedAtLimit ==
    /\ api_req = <<"check_rate_limit", None>>
    /\ api_resp = [status |-> 429]
    /\ clock = MaxClock
    /\ Len(request_counts["anonymous"]) = RATE_LIMIT
    /\ request_counts["anonymous"][1] < clock
    /\ request_counts["anonymous"][RATE_LIMIT] = clock
    /\ Len(CountsOf(request_counts, "key-1")) = 1

\* whether the text names a drug of the table
NamesStoredDrug(text) ==
    \E i \in 1..Len(store) : Find(Lower(text), Lower(store[i].drug_name)) >= 0

\* C27: POST /api/search with use_llm = false and a drug_status or
\* alternatives question that names a drug present in the store answers
\* 200 with success = true and the detected query type in the metadata,
\* never 400 for a drug name that could not be identified
C27_SearchNamedDrug ==
    (/\ api_req # <<>>
     /\ api_req[1] = "POST /api/search"
     /\ detect_query_type(api_req[2])[1] \in {"drug_status", "alternatives"}
     /\ NamesStoredDrug(api_req[2])) =>
        /\ api_resp.status = 200
        /\ api_resp.success
        /\ api_resp.metadata.query_type = detect_query_type(api_req[2])[1]

\* C29: the fallback merge modifies only drug_name, query_type and filters
\* of the intent: it adds and removes no key, and confidence,
\* drug_confidence and method keep their rule-based values, so that after
\* the merge method is still rule_based and confidence is still the
\* classifier's score
C29_MergeFrame ==
    /\ [][pc = "merge" =>
            /\ DOMAIN parsed_intent' = DOMAIN parsed_intent
            /\ \A k \in DOMAIN parsed_intent \ {"drug_name", "query_type", "filters"} :
                 parsed_intent'[k] = parsed_intent[k]]_vars
    /\ []((pc \in {"merge", "execute", "answer"} /\ parsed_intent # NoneRec) =>
            /\ parsed_intent.method = "rule_based"
            /\ parsed_intent.confidence = detect_query_type(query)[2])

\* the merge adopted the fallback's drug name and changed the query type,
\* and the intent still carries the rule-based method and a confidence
\* other than the fallback's
C29_MergedKeepsMethod ==
    /\ pc = "execute"
    /\ llm_intent # NoneRec
    /\ llm_intent.method = "llm_fallback"
    /\ parsed_intent.drug_name = llm_intent.drug_name
    /\ parsed_intent.drug_name # None
    /\ parsed_intent.query_type = llm_intent.query_type
    /\ parsed_intent.query_type # detect_query_type(query)[1]
    /\ parsed_intent.method = "rule_based"
    /\ parsed_intent.confidence # llm_intent.confidence

\* C30: for every store content, every drug D returned by
\* fetch_alternatives or filter_drugs is reported with the drug_status and
\* the categories that fetch_drug_by_name(D.drug_name) reports for the same
\* store content
C30_SameAsLookup ==
    (db_op # <<>> /\ db_op[1] \in {"fetch_alternatives", "filter_drugs"}) =>
        \A d \in Returned :
            /\ fetch_drug_by_name(store, d.drug_name) # NoneRec
            /\ d.drug_status = fetch_drug_by_name(store, d.drug_name).drug_status
            /\ d.categories = fetch_drug_by_name(store, d.drug_name).categories
====
